---------------------------- MODULE Spec2Model ----------------------------
(***************************************************************************)
(* A model of tele-agent's skill execution and tool-orchestration engine:  *)
(* the Skill Store and Tool Registry (src/skills/parser.py,                *)
(* src/core/tool_registry.py), the Skill Executor                          *)
(* (src/skills/executor.py), the Scheduler (src/scheduler/scheduler.py,    *)
(* src/scheduler/models.py) and the tool-calling loop                      *)
(* (src/bot/handlers.py).                                                  *)
(*                                                                         *)
(* Each component has its own specification (SpecSkills, SpecExec,         *)
(* SpecSched, SpecLoop) over the one set of variables; the actions of a    *)
(* component leave the variables of the others unchanged unless the code   *)
(* calls into them.                                                        *)
(***************************************************************************)
EXTENDS Integers, Sequences, FiniteSets, Bags, TLC

VARIABLES
  \* ---- Skill Store and Tool Registry
  skills,        \* SkillParser._skills_cache: name -> [enabled, code]
  skillFiles,    \* the skills directory: name -> the code of the document <name>.md
  tools_cache,   \* ToolRegistry._tools_cache: name -> ToolDefinition
  lastTools,     \* what the last get_all_tool_definitions() returned
  lastSkill,     \* what the last get_skill(name) returned
  skillOp,       \* the last operation on the Skill Store or the Tool Registry
  \* ---- Skill Executor (one SkillExecutor instance)
  installed,     \* SkillExecutor._installed_packages
  execCalls,     \* execute() calls so far; a call is named by its number
  futures,       \* the futures still referenced: call -> [beh, st]
  queue,         \* the pool's work queue: submitted calls not picked up yet
  worker,        \* the call the pool's single worker thread runs, 0 when idle
  execPc,        \* where the caller of execute() is
  execResult,    \* the ExecutionResult of the last execute() that returned
  inTime,        \* whether the last call's code had finished when execute() ended
  \* ---- Scheduler
  jobs,          \* JobStore._jobs: id -> ScheduledJob
  jobFile,       \* the job store file: the "jobs" list the last _save() wrote
  pending,       \* _pending_jobs: id -> PendingJob
  triggers,      \* the job queue: a bag of trigger records
  due,           \* the daily triggers whose time has just come
  now,           \* the local clock: [day, tod], tod an index into Instants
  started,       \* Scheduler.start() has run
  nextId,        \* the next generated job id
  schedOp,       \* the last Scheduler operation: [op, id, ret, found]
  resolved,      \* per generated id: confirm/cancel calls on it, jobs made from it
  togSnap,       \* the state before the first of consecutive toggle_job(id) calls
  \* ---- process_message / handle_with_tool_calling
  pc,            \* where the handling of the current message stands
  iterations,    \* the loop counter of handle_with_tool_calling
  remaining,     \* the tool calls of the current response still to execute
  run,           \* the current (or last) run: provider calls, outcome, replies
  conv,          \* context.user_data["conversation"]
  hasConv,       \* "conversation" in context.user_data
  disk,          \* the messages of the conversation history file
  fullHistory,   \* the (user, assistant) pairs of all final answers, in order
  appended,      \* the pairs appended to the conversation so far
  toolResults,   \* the tool calls the last response asked for, and the tool
                 \* results appended to messages since that response
  late,          \* PROCESSING_TIMEOUT has passed while the event loop was blocked
  \* ---- TeleAgent._execute_scheduled_job
  jobPc,         \* where the execution of the fired job stands
  jobRun,        \* the current (or last) execution of a fired job
  \* ---- the Application's update queue and the handlers it has called
  updateQueue,   \* the text/photo updates of the admin not yet dispatched
  runs,          \* the process_message calls so far, in the order of their start
  \* ---- ConversationGraph: the teaching flow
  teachPc,       \* the node the graph stands at ("END" between runs)
  teach,         \* the GraphState fields of the flow, and what the run did
  \* ---- one persisted file and the process that writes it
  fileOnDisk,    \* [which, records, whole]: the records in the file, and whether
                 \* the file is a complete document
  writer,        \* [pc, prev, new, loaded]: the write in progress, the content
                 \* before it, the content it writes, what a restart loaded
  \* ---- SkillParser at the level of the documents' text
  docs,          \* the *.md files of the skills directory: name -> document
  parsedSkills,  \* SkillParser._skills_cache: name -> the Skill parse_file built
  parserOp,      \* the last SkillParser operation: [op, name, ret]
  \* ---- ToolRegistry over the sources of the skills
  sources,       \* SkillParser.skills: name -> [enabled, code], the code as ast
                 \* sees it
  defCache,      \* ToolRegistry._tools_cache: name -> ToolDefinition
  defsOut,       \* what the last get_all_tool_definitions() returned (None when
                 \* the skills changed since): name -> ToolDefinition
  \* ---- SkillExecutor._execute_code: the sandbox and the process-wide streams
  sysStdout,     \* sys.stdout of the process: Original, or the index of the
                 \* execution whose StringIO it is
  execs,         \* the _execute_code calls so far, over all SkillExecutor
                 \* instances, in the order of their start
  \* ---- the Telegram handlers and the admin check
  bot,           \* what the handlers act on: provider calls made, skills
                 \* executed, conversation length, enabled skills, active
                 \* provider, pending jobs, stored jobs, registered triggers
  lastUpdate,    \* the update the application dispatched last
  updatesSeen    \* the updates dispatched so far

varsSkills == <<skills, skillFiles, tools_cache, lastTools, lastSkill, skillOp>>
varsSched == <<jobs, jobFile, pending, triggers, due, now, started, nextId, schedOp,
               resolved, togSnap>>
varsLoop == <<pc, iterations, remaining, run, conv, hasConv, disk, fullHistory,
              appended, toolResults, late>>
varsExec == <<installed, execCalls, futures, queue, worker, execPc, execResult, inTime>>
varsJob == <<jobPc, jobRun>>
\* the components added to the four above
varsUpdates == <<updateQueue, runs>>
varsTeach == <<teachPc, teach>>
varsFile == <<fileOnDisk, writer>>
varsParser == <<docs, parsedSkills, parserOp>>
varsRegistry == <<sources, defCache, defsOut>>
varsSandbox == <<sysStdout, execs>>
varsAuth == <<bot, lastUpdate, updatesSeen>>
varsOther == <<varsJob, varsUpdates, varsTeach, varsFile, varsParser, varsRegistry, varsSandbox, varsAuth>>

\* Python's None, where an object may be absent
None == [none |-> TRUE]

(***************************************************************************)
(* Sequence helpers.                                                       *)
(***************************************************************************)
RECURSIVE SeqOfSet(_)
\* the elements of a finite set of integers in increasing order
SeqOfSet(S) ==
  IF S = {} THEN <<>>
  ELSE LET m == CHOOSE x \in S : \A y \in S : x <= y
       IN <<m>> \o SeqOfSet(S \ {m})

Range(s) == {s[i] : i \in DOMAIN s}

(***************************************************************************)
(* Skill Store and Tool Registry.                                          *)
(*                                                                         *)
(* A skill's name is the stem of its document (an index here); its code is *)
(* a version number of its source body.  The dictionary order of           *)
(* _skills_cache is the order of the names.                                *)
(***************************************************************************)
\* number of skill documents in the skills directory
NumSkills == 3

SkillNames == 1..NumSkills

\* Skill(...) as parse_file builds it: enabled defaults to True
Skill(code) == [enabled |-> TRUE, code |-> code]

\* ToolRegistry.skill_to_tool_definition: name and schema derive from the skill
skill_to_tool_definition(name, skill) == [name |-> name, code |-> skill.code]

\* (mutant) the enabled flag is not looked at
VisitedSkillsAll(sk) == DOMAIN sk

\* which names one pass of get_all_tool_definitions() visits: the disabled are skipped
VisitedSkills(sk) == {n \in DOMAIN sk : sk[n].enabled}

\* the definition get_all_tool_definitions() yields for a visited skill:
\* the cached one when there is one, a fresh one otherwise
DefinitionFor(sk, cache, n) ==
  IF n \in DOMAIN cache THEN cache[n] ELSE skill_to_tool_definition(n, sk[n])

\* ToolRegistry.get_all_tool_definitions
get_all_tool_definitions ==
  LET order == SeqOfSet(VisitedSkills(skills))
  IN /\ lastTools' = [i \in DOMAIN order |-> DefinitionFor(skills, tools_cache, order[i])]
     /\ tools_cache' = [n \in DOMAIN tools_cache \cup VisitedSkills(skills) |->
                          DefinitionFor(skills, tools_cache, n)]
     /\ skillOp' = "get_all_tool_definitions"
     /\ UNCHANGED <<skills, skillFiles, lastSkill>>

\* SkillParser.get_skill
get_skill(sk, n) == IF n \in DOMAIN sk THEN sk[n] ELSE None

\* handle_skill_callback, action "toggle"
SkillToggle(n) ==
  /\ IF n \in DOMAIN skills
       THEN skills' = [skills EXCEPT ![n].enabled = ~skills[n].enabled]
       ELSE UNCHANGED skills
  /\ skillOp' = "toggle"
  /\ UNCHANGED <<skillFiles, tools_cache, lastTools, lastSkill>>

\* handle_skill_callback, action "enable_all"
SkillEnableAll ==
  /\ skills' = [n \in DOMAIN skills |-> [skills[n] EXCEPT !.enabled = TRUE]]
  /\ skillOp' = "enable_all"
  /\ UNCHANGED <<skillFiles, tools_cache, lastTools, lastSkill>>

\* handle_skill_callback, action "disable_all"
SkillDisableAll ==
  /\ skills' = [n \in DOMAIN skills |-> [skills[n] EXCEPT !.enabled = FALSE]]
  /\ skillOp' = "disable_all"
  /\ UNCHANGED <<skillFiles, tools_cache, lastTools, lastSkill>>

\* a caller looks a skill up by name
GetSkill(n) ==
  /\ lastSkill' = [name |-> n, skill |-> get_skill(skills, n)]
  /\ skillOp' = "get_skill"
  /\ UNCHANGED <<skills, skillFiles, tools_cache, lastTools>>

\* bound: the versions of a skill's source body
MaxCode == 2

Codes == 1..MaxCode

\* a skill document is rewritten on disk (the skills are Markdown files of the
\* skills directory, read by parse_file)
DocumentEdited(n, code) ==
  /\ skillFiles[n] # code
  /\ skillFiles' = [skillFiles EXCEPT ![n] = code]
  /\ skillOp' = "edit"
  /\ UNCHANGED <<skills, tools_cache, lastTools, lastSkill>>

\* SkillParser.save_skill for a new Skill object (as _save_skill builds it):
\* the document is written, the Skill Store entry replaced
SaveSkill(n, code) ==
  /\ skillFiles' = [skillFiles EXCEPT ![n] = code]
  /\ skills' = [skills EXCEPT ![n] = Skill(code)]
  /\ skillOp' = "save_skill"
  /\ UNCHANGED <<tools_cache, lastTools, lastSkill>>

\* SkillParser.reload_skill: the document is parsed again
ReloadSkill(n) ==
  /\ skills' = [skills EXCEPT ![n] = Skill(skillFiles[n])]
  /\ skillOp' = "reload_skill"
  /\ UNCHANGED <<skillFiles, tools_cache, lastTools, lastSkill>>

\* SkillParser.load_all_skills: the Skill Store is emptied and every document parsed
load_all_skills(files) == [n \in DOMAIN files |-> Skill(files[n])]

\* handle_skill_callback, action "refresh"
SkillRefresh ==
  /\ skills' = load_all_skills(skillFiles)
  /\ skillOp' = "refresh"
  /\ UNCHANGED <<skillFiles, tools_cache, lastTools, lastSkill>>

\* reload_command: load_all_skills(), ToolRegistry.refresh() (clear_cache and
\* load_all_skills again), then get_all_tool_definitions() for the count
ReloadCommand ==
  LET sk == load_all_skills(skillFiles)
      order == SeqOfSet(VisitedSkills(sk))
  IN /\ skills' = sk
     /\ lastTools' = [i \in DOMAIN order |-> DefinitionFor(sk, <<>>, order[i])]
     /\ tools_cache' = [n \in VisitedSkills(sk) |-> DefinitionFor(sk, <<>>, n)]
     /\ skillOp' = "reload_command"
     /\ UNCHANGED <<skillFiles, lastSkill>>


(***************************************************************************)
(* Skill Executor.                                                         *)
(*                                                                         *)
(* A dependency is named by what the environment does with it; the code of *)
(* a skill by what it does when run.  Time is abstract: code that is not   *)
(* "slow" or "hang" takes no time against the timeout, "slow" code         *)
(* finishes only after its caller's timeout has passed, "hang" code never. *)
(***************************************************************************)
\* bound: execute() calls on the one executor
MaxExecCalls == 2

\* bound: length of a skill's dependency list
MaxDeps == 2

Deps == { "importable",   \* __import__(dep) succeeds
          "pipOk",        \* ImportError, pip install returns 0
          "pipFail",      \* ImportError, pip install returns non-zero
          "pipExc",       \* ImportError, subprocess.run raises (its 60 s timeout)
          "importCrash" } \* __import__(dep) raises something that is no ImportError

DepLists == UNION {[1..n -> Deps] : n \in 0..MaxDeps}

Behs == { "ok",        \* execute(**args) returns a value
          "exc",       \* the body or execute raises an Exception
          "nofunc",    \* the body defines no execute: ValueError (executor.py:165)
          "toexc",     \* the code raises the builtin TimeoutError
          "base",      \* the code raises SystemExit: a BaseException, no Exception
          "slow",      \* returns a value, after the timeout
          "hang" }     \* never terminates

\* SkillExecutor._install_dependencies: <<outcome, installed'>> where outcome is
\* "ok" (True, ""), "failed" (False, message) or "raised" (an exception escapes)
RECURSIVE install_dependencies(_, _)
install_dependencies(deps, inst) ==
  IF deps = <<>> THEN <<"ok", inst>>
  ELSE LET dep == Head(deps) IN
    CASE dep \in inst               -> install_dependencies(Tail(deps), inst)
      [] dep = "importable"         -> install_dependencies(Tail(deps), inst \cup {dep})
      [] dep = "importCrash"        -> <<"raised", inst>>
      [] dep = "pipOk"              -> install_dependencies(Tail(deps), inst \cup {dep})
      [] dep \in {"pipFail", "pipExc"} -> <<"failed", inst>>

\* ExecutionResult values (success, error)
SuccessResult == [success |-> TRUE, error |-> "none"]
DependencyFailure == [success |-> FALSE, error |-> "Dependency installation failed"]
TimeoutFailure == [success |-> FALSE, error |-> "Execution timed out"]
ExceptionFailure == [success |-> FALSE, error |-> "Exception"]

CurCall == execCalls

\* a future is dropped once neither the caller nor the pool refers to it
Live(fs, q, w) == [i \in {j \in DOMAIN fs : j = w \/ j \in Range(q)} |-> fs[i]]

\* the caller of call i has stopped waiting for it
Abandoned(i) == i < CurCall \/ execPc # "waiting"

\* execute(), up to the submit: the dependency step, then the task is queued
ExecuteBegin(deps, beh) ==
  /\ execPc \in {"idle", "returned", "raised"}
  /\ CurCall < MaxExecCalls
  /\ LET r == install_dependencies(deps, installed) IN
       /\ installed' = r[2]
       /\ CASE r[1] = "failed" ->
                 /\ execPc' = "returned"
                 /\ execResult' = DependencyFailure
                 /\ inTime' = TRUE
                 /\ UNCHANGED <<queue, futures>>
            [] r[1] = "raised" ->
                 /\ execPc' = "raised"
                 /\ inTime' = TRUE
                 /\ UNCHANGED <<queue, futures, execResult>>
            [] r[1] = "ok" ->
                 /\ execPc' = "waiting"
                 /\ futures' = (CurCall + 1 :> [beh |-> beh, st |-> "pending"]) @@ futures
                 /\ queue' = Append(queue, CurCall + 1)
                 /\ UNCHANGED <<execResult, inTime>>
  /\ execCalls' = execCalls + 1
  /\ UNCHANGED worker

\* the worker thread takes the next work item; one whose future was cancelled is dropped
WorkerStart ==
  /\ worker = 0
  /\ queue # <<>>
  /\ LET i == Head(queue) IN
       IF futures[i].st = "cancelled"
         THEN /\ UNCHANGED worker
              /\ futures' = Live(futures, Tail(queue), worker)
         ELSE /\ worker' = i
              /\ futures' = [futures EXCEPT ![i].st = "running"]
  /\ queue' = Tail(queue)
  /\ UNCHANGED <<installed, execCalls, execPc, execResult, inTime>>

\* _execute_code ends in the worker thread: the future holds its result or exception
WorkerFinish ==
  /\ worker # 0
  /\ \/ futures[worker].beh \in {"ok", "exc", "nofunc", "toexc", "base"}
     \/ futures[worker].beh = "slow" /\ Abandoned(worker)
  /\ futures' = IF worker = CurCall /\ execPc = "waiting"
                   THEN [futures EXCEPT ![worker].st = "done"]
                   ELSE Live(futures, queue, 0)
  /\ worker' = 0
  /\ UNCHANGED <<installed, execCalls, queue, execPc, execResult, inTime>>

\* a step that takes no time is enabled: the timeout cannot pass before it
Instantaneous ==
  \/ worker = 0 /\ queue # <<>>
  \/ worker # 0 /\ futures[worker].beh \notin {"slow", "hang"}

\* future.result(timeout) returns or re-raises what the code did
ExecuteReturn ==
  /\ execPc = "waiting"
  /\ futures[CurCall].st = "done"
  /\ inTime' = TRUE
  /\ futures' = Live(futures, queue, worker)
  /\ LET beh == futures[CurCall].beh IN
       CASE beh \in {"ok", "slow"} ->
              execPc' = "returned" /\ execResult' = SuccessResult
         [] beh \in {"exc", "nofunc"} ->
              execPc' = "returned" /\ execResult' = ExceptionFailure
         [] beh = "toexc" ->
              \* concurrent.futures.TimeoutError is the builtin TimeoutError from
              \* Python 3.11 on, and a class of its own before
              /\ execPc' = "returned"
              /\ execResult' \in {TimeoutFailure, ExceptionFailure}
         [] beh = "base" ->
              \* "except Exception" does not catch it
              execPc' = "raised" /\ UNCHANGED execResult
  /\ UNCHANGED <<installed, execCalls, queue, worker>>

\* (mutant) the timeout is reported like any other exception
OnTimeoutGeneric == ExceptionFailure

\* what execute() returns when future.result(timeout) raises the timeout
OnTimeout == TimeoutFailure

\* future.result(timeout) times out; future.cancel() cancels a task not yet started
ExecuteTimeout ==
  /\ execPc = "waiting"
  /\ futures[CurCall].st \in {"pending", "running"}
  /\ ~Instantaneous
  /\ futures' = [futures EXCEPT ![CurCall].st =
                   IF @ = "pending" THEN "cancelled" ELSE @]
  /\ execPc' = "returned"
  /\ execResult' = OnTimeout
  /\ inTime' = FALSE
  /\ UNCHANGED <<installed, execCalls, queue, worker>>

(***************************************************************************)
(* Scheduler: cron expressions.                                            *)
(*                                                                         *)
(* A cron expression is the list of its space-separated fields; a field is *)
(* "*", "*/n", a number, a range "a-b", a list "a,b" or a word that is no  *)
(* number.                                                                 *)
(***************************************************************************)
Star == [k |-> "star"]
Step(n) == [k |-> "step", n |-> n]
Lit(n) == [k |-> "lit", n |-> n]
Rng(a, b) == [k |-> "range", a |-> a, b |-> b]
Lst(l) == [k |-> "list", l |-> l]
Word == [k |-> "word"]

Raised == [raised |-> TRUE]

\* parse_cron: the dict of parsed values, or Raised for its ValueError
\* (a wrong field count, int() of a minute or hour that is no number)
parse_cron(cron) ==
  IF Len(cron) # 5 THEN Raised
  ELSE IF cron[1].k \notin {"star", "lit"} \/ cron[2].k \notin {"star", "lit"} THEN Raised
  ELSE [minute |-> IF cron[1] # Star THEN cron[1] ELSE None,
        hour |-> IF cron[2] # Star THEN cron[2] ELSE None,
        day |-> IF cron[3] # Star THEN cron[3] ELSE None,
        month |-> IF cron[4] # Star THEN cron[4] ELSE None,
        day_of_week |-> IF cron[5] # Star THEN cron[5] ELSE None]

\* (mutant) a restricted day-of-month is not taken for a daily schedule
cron_to_time_dom(cron) ==
  LET parsed == parse_cron(cron) IN
  IF parsed = Raised THEN None
  ELSE IF parsed.minute # None /\ parsed.hour # None /\ parsed.day = None
    THEN IF parsed.hour.n \in 0..23 /\ parsed.minute.n \in 0..59
           THEN [hour |-> parsed.hour.n, minute |-> parsed.minute.n]
           ELSE None
    ELSE None

\* cron_to_time: the time of day of a daily schedule, or None; every exception,
\* that of datetime.time for an hour or minute out of range included, gives None
cron_to_time(cron) ==
  LET parsed == parse_cron(cron) IN
  IF parsed = Raised THEN None
  ELSE IF parsed.minute # None /\ parsed.hour # None
    THEN IF parsed.hour.n \in 0..23 /\ parsed.minute.n \in 0..59
           THEN [hour |-> parsed.hour.n, minute |-> parsed.minute.n]
           ELSE None
    ELSE None

\* cron_to_interval_seconds: the period of a simple pattern, or None
cron_to_interval_seconds(cron) ==
  IF Len(cron) # 5 THEN None
  ELSE LET minute == cron[1]
           hour == cron[2]
           day == cron[3]
       IN CASE \A i \in 1..5 : cron[i] = Star -> [n |-> 60]
            [] minute.k = "step" /\ hour = Star /\ day = Star -> [n |-> minute.n * 60]
            [] minute.k = "lit" /\ hour = Star /\ day = Star -> [n |-> 3600]
            [] minute.k = "lit" /\ hour.k = "step" /\ day = Star -> [n |-> hour.n * 3600]
            [] OTHER -> None

\* cron_to_ptb_day: Sunday-is-0 to Monday-is-0
cron_to_ptb_day(d) == (d + 6) % 7

RECURSIVE IntRange(_, _)
\* range(a, b + 1) as a sequence
IntRange(a, b) == IF a > b THEN <<>> ELSE <<a>> \o IntRange(a + 1, b)

\* the days tuple _register_job derives from the day-of-week field: None for no
\* restriction, Raised when int() meets a field that is no number
ptb_days(dow) ==
  CASE dow = None -> None
    [] dow.k = "range" -> [t |-> [i \in DOMAIN IntRange(dow.a, dow.b) |->
                                   cron_to_ptb_day(IntRange(dow.a, dow.b)[i])]]
    [] dow.k = "list" -> [t |-> [i \in DOMAIN dow.l |-> cron_to_ptb_day(dow.l[i])]]
    [] dow.k = "lit" -> [t |-> <<cron_to_ptb_day(dow.n)>>]
    [] OTHER -> Raised

(***************************************************************************)
(* Scheduler: the job queue.                                               *)
(*                                                                         *)
(* A day is a number, day 0 a Monday; the clock stands at one of a few     *)
(* instants of the day.  A recurring trigger is named by its job's id, a   *)
(* catch-up trigger by the id and the suffix "_catchup".                   *)
(***************************************************************************)
\* bound: the last day the clock reaches
MaxDay == 0

\* bound: job ids generated
MaxIds == 2

\* the instants of a day the clock stands at, in minutes since midnight
Instants == <<8 * 60, 10 * 60>>

weekday(day) == day % 7

\* datetime.now().time() as minutes since midnight
TimeOfDay(t) == Instants[t.tod]

Name(id) == <<id, "">>
CatchupName(id) == <<id, "_catchup">>

\* (mutant) the triggers of the job stay in the job queue
unregister_job_kept(trigs, id) == trigs

\* job_queue.get_jobs_by_name(job_id) ... schedule_removal(): _unregister_job
unregister_job(trigs, id) ==
  [t \in {x \in DOMAIN trigs : x.name # Name(id)} |-> trigs[t]]

\* run_once(...) as _check_missed_job schedules it
CatchupTrigger(id) == [name |-> CatchupName(id), kind |-> "once", job |-> id]

\* (mutant) the time of day is not compared
check_missed_job_anytime(trigs, job, id, run_time, days, t) ==
  IF days # None /\ weekday(t.day) \notin Range(days.t) THEN trigs
  ELSE IF job.last_run # None /\ job.last_run.day = t.day THEN trigs
  ELSE trigs (+) SetToBag({CatchupTrigger(id)})

\* _check_missed_job: the job queue after the check
check_missed_job(trigs, job, id, run_time, days, t) ==
  IF days # None /\ weekday(t.day) \notin Range(days.t) THEN trigs
  ELSE IF TimeOfDay(t) <= run_time.hour * 60 + run_time.minute THEN trigs
  ELSE IF job.last_run # None /\ job.last_run.day = t.day THEN trigs
  ELSE trigs (+) SetToBag({CatchupTrigger(id)})

\* _register_job: [raised, triggers] after registering job under id at time t
register_job(trigs, job, id, t) ==
  LET removed == unregister_job(trigs, id)
      interval == cron_to_interval_seconds(job.cron)
      run_time == cron_to_time(job.cron)
  IN IF interval # None /\ interval.n # 0
       THEN [raised |-> FALSE,
             triggers |-> removed (+) SetToBag({[name |-> Name(id), kind |-> "repeating",
                                                 job |-> id, interval |-> interval.n]})]
     ELSE IF run_time # None
       THEN LET days == ptb_days(parse_cron(job.cron).day_of_week) IN
            IF days = Raised
              THEN [raised |-> TRUE, triggers |-> removed]
              ELSE [raised |-> FALSE,
                    triggers |-> check_missed_job(
                       removed (+) SetToBag({[name |-> Name(id), kind |-> "daily",
                                              job |-> id, time |-> run_time,
                                              days |-> days]}),
                       job, id, run_time, days, t)]
     ELSE [raised |-> FALSE, triggers |-> removed]

(***************************************************************************)
(* Scheduler: the job store, the pending jobs and the operations.          *)
(***************************************************************************)
\* the crons the jobs of the model are drawn from
CronPool ==
  { <<Step(15), Star, Star, Star, Star>>,            \* */15 * * * *
    <<Lit(0), Lit(9), Star, Star, Star>>,            \* 0 9 * * *
    <<Lit(0), Lit(9), Star, Star, Rng(2, 5)>>,       \* 0 9 * * 2-5
    <<Lit(0), Lit(9), Star, Star, Word>> }           \* 0 9 * * mon

\* what a CONFIRM_SCHEDULE payload carries
Payloads == {[task |-> <<"task", c>>, cron |-> c, description |-> <<"description", c>>] :
               c \in CronPool}

\* a value returned, where None and an exception are the other outcomes
Ret(x) == [val |-> x]

\* PendingJob.create (the id is generated by the caller here)
PendingJob(p) ==
  [task |-> p.task, cron |-> p.cron, description |-> p.description, message_id |-> 0]

\* PendingJob.to_scheduled_job: enabled, created now, never run
to_scheduled_job(p, day) ==
  [task |-> p.task, cron |-> p.cron, description |-> p.description, enabled |-> TRUE,
   created_at |-> day, last_run |-> None]

\* (mutant) a serialization that leaves last_run out
to_dict_without_last_run(id, job) ==
  [id |-> id, task |-> job.task, cron |-> job.cron, description |-> job.description,
   enabled |-> job.enabled, created_at |-> job.created_at]

\* ScheduledJob.to_dict: asdict of the dataclass, the id among the fields
to_dict(id, job) ==
  [id |-> id, task |-> job.task, cron |-> job.cron, description |-> job.description,
   enabled |-> job.enabled, created_at |-> job.created_at, last_run |-> job.last_run]

\* ScheduledJob.from_dict: cls(**data); a field the data lacks takes the
\* dataclass default (enabled True, last_run None)
from_dict(d) ==
  [task |-> d.task, cron |-> d.cron, description |-> d.description,
   enabled |-> IF "enabled" \in DOMAIN d THEN d.enabled ELSE TRUE,
   created_at |-> d.created_at,
   last_run |-> IF "last_run" \in DOMAIN d THEN d.last_run ELSE None]

\* JobStore._save: the "jobs" list of the document written, one dictionary a job
store_save(js) ==
  LET order == SeqOfSet(DOMAIN js)
  IN [i \in DOMAIN order |-> to_dict(order[i], js[order[i]])]

\* JobStore._load: _jobs built from the "jobs" list, a later entry of an id
\* replacing an earlier one
store_load(file) ==
  [id \in {file[i].id : i \in DOMAIN file} |->
     from_dict(file[CHOOSE i \in DOMAIN file :
                      file[i].id = id /\ \A j \in DOMAIN file : file[j].id = id => j <= i])]

\* dict.pop(key, None): the dictionary without the key
Pop(d, key) == [k \in DOMAIN d \ {key} |-> d[k]]

\* (mutant) the pending job is looked up and left in place
remove_pending_kept(pend, id) == pend

\* (mutant) the whole pending storage is emptied
remove_pending_all(pend, id) == <<>>

\* Scheduler.remove_pending: _pending_jobs after the pop
remove_pending(pend, id) == Pop(pend, id)

\* the ghost record of a confirm or cancel call on id
Resolve(id, how, made) ==
  IF id \in DOMAIN resolved
    THEN [resolved EXCEPT ![id] =
            [calls |-> IF @.calls < 2 THEN @.calls + 1 ELSE 2,
             made |-> @.made + made,
             how |-> IF @.how = "" THEN how ELSE @.how]]
    ELSE resolved

\* start() raised: run() and asyncio.run() pass the exception on, the process ends
Crashed == schedOp.op = "start" /\ schedOp.ret = Raised

\* the process runs and no trigger of the job queue is waiting to be served
Quiet == due = EmptyBag /\ ~Crashed

\* the one-off triggers that may wait in the job queue at a time
MaxCatchups == 2

\* the one-off triggers of a job queue
OnceCount(trigs) ==
  BagCardinality([x \in {y \in DOMAIN trigs : y.kind = "once"} |-> trigs[x]])

\* handle_scheduler_confirmation: PendingJob.create and Scheduler.add_pending
AddPending(p) ==
  /\ Quiet
  /\ nextId <= MaxIds
  /\ pending' = (nextId :> PendingJob(p)) @@ pending
  /\ nextId' = nextId + 1
  /\ resolved' = (nextId :> [calls |-> 0, made |-> 0, how |-> ""]) @@ resolved
  /\ schedOp' = [op |-> "add_pending", id |-> nextId, ret |-> None, found |-> None]
  /\ togSnap' = None
  /\ UNCHANGED <<jobs, jobFile, triggers, due, now, started>>

\* Scheduler.confirm_job
ConfirmJob(id) ==
  /\ Quiet
  /\ togSnap' = None
  /\ IF id \notin DOMAIN pending
       THEN /\ schedOp' = [op |-> "confirm_job", id |-> id, ret |-> None, found |-> None]
            /\ resolved' = Resolve(id, "", 0)
            /\ UNCHANGED <<jobs, jobFile, pending, triggers>>
       ELSE LET job == to_scheduled_job(pending[id], now.day)
                reg == register_job(triggers, job, id, now)
            IN /\ pending' = remove_pending(pending, id)
               /\ jobs' = (id :> job) @@ jobs
               /\ jobFile' = store_save(jobs')
               /\ OnceCount(reg.triggers) <= MaxCatchups
               /\ triggers' = reg.triggers
               /\ resolved' = Resolve(id, "confirm", 1)
               /\ schedOp' = [op |-> "confirm_job", id |-> id,
                              ret |-> IF reg.raised THEN Raised ELSE Ret(job),
                              found |-> pending[id]]
  /\ UNCHANGED <<due, now, started, nextId>>

\* Scheduler.cancel_pending
CancelPending(id) ==
  /\ Quiet
  /\ togSnap' = None
  /\ pending' = IF id \in DOMAIN pending THEN remove_pending(pending, id) ELSE pending
  /\ resolved' = Resolve(id, IF id \in DOMAIN pending THEN "cancel" ELSE "", 0)
  /\ schedOp' = [op |-> "cancel_pending", id |-> id, ret |-> Ret(id \in DOMAIN pending),
                 found |-> IF id \in DOMAIN pending THEN pending[id] ELSE None]
  /\ UNCHANGED <<jobs, jobFile, triggers, due, now, started, nextId>>

\* Scheduler.toggle_job, with JobStore.toggle_enabled
ToggleJob(id) ==
  /\ Quiet
  /\ togSnap' = IF id \notin DOMAIN jobs THEN None
                ELSE IF togSnap # None /\ togSnap.id = id /\ togSnap.count = 1
                  THEN [togSnap EXCEPT !.count = 2]
                  ELSE [id |-> id, count |-> 1, enabled |-> jobs[id].enabled,
                        triggers |-> triggers]
  /\ IF id \notin DOMAIN jobs
       THEN /\ schedOp' = [op |-> "toggle_job", id |-> id, ret |-> None, found |-> None]
            /\ UNCHANGED <<jobs, jobFile, triggers>>
       ELSE LET new_state == ~jobs[id].enabled
                job == [jobs[id] EXCEPT !.enabled = new_state]
                reg == IF new_state
                         THEN register_job(triggers, job, id, now)
                         ELSE [raised |-> FALSE, triggers |-> unregister_job(triggers, id)]
            IN /\ OnceCount(reg.triggers) <= MaxCatchups
               /\ jobs' = [jobs EXCEPT ![id] = job]
               /\ jobFile' = store_save(jobs')
               /\ triggers' = reg.triggers
               /\ schedOp' = [op |-> "toggle_job", id |-> id,
                              ret |-> IF reg.raised THEN Raised ELSE Ret(new_state),
                              found |-> None]
  /\ UNCHANGED <<pending, due, now, started, nextId, resolved>>

\* Scheduler.delete_job, with JobStore.remove
DeleteJob(id) ==
  /\ Quiet
  /\ togSnap' = None
  /\ triggers' = unregister_job(triggers, id)
  /\ IF id \in DOMAIN jobs
       THEN /\ jobs' = Pop(jobs, id)
            /\ jobFile' = store_save(jobs')
            /\ schedOp' = [op |-> "delete_job", id |-> id, ret |-> Ret(jobs[id]),
                           found |-> None]
       ELSE /\ schedOp' = [op |-> "delete_job", id |-> id, ret |-> None, found |-> None]
            /\ UNCHANGED <<jobs, jobFile>>
  /\ UNCHANGED <<pending, due, now, started, nextId, resolved>>

\* JobStore.update, which no caller in the repository uses, with a copy of the
\* stored job that has another description and the given enabled flag: the job
\* of that id is replaced and the file rewritten when the id is stored
StoreUpdate(id, enabled) ==
  /\ Quiet
  /\ togSnap' = None
  /\ jobs' = IF id \in DOMAIN jobs
               THEN [jobs EXCEPT ![id] = [@ EXCEPT !.enabled = enabled,
                                                  !.description = <<"edited">>]]
               ELSE jobs
  /\ jobFile' = IF id \in DOMAIN jobs THEN store_save(jobs') ELSE jobFile
  /\ schedOp' = [op |-> "update", id |-> id, ret |-> None, found |-> None]
  /\ UNCHANGED <<pending, triggers, due, now, started, nextId, resolved>>

RECURSIVE register_all(_, _, _, _)
\* the loop of start(): the jobs in turn, until one registration raises
register_all(trigs, ids, js, t) ==
  IF ids = <<>> THEN [raised |-> FALSE, triggers |-> trigs]
  ELSE LET reg == register_job(trigs, js[Head(ids)], Head(ids), t) IN
       IF reg.raised THEN reg ELSE register_all(reg.triggers, Tail(ids), js, t)

\* JobStore.get_enabled, in the order of the dictionary
get_enabled(js) == SeqOfSet({i \in DOMAIN js : js[i].enabled})

\* Scheduler.start
Start ==
  /\ Quiet
  /\ ~started
  /\ togSnap' = None
  /\ LET reg == register_all(triggers, get_enabled(jobs), jobs, now) IN
       /\ OnceCount(reg.triggers) <= MaxCatchups
       /\ triggers' = reg.triggers
       /\ started' = ~reg.raised
       /\ schedOp' = [op |-> "start", id |-> 0,
                      ret |-> IF reg.raised THEN Raised ELSE None, found |-> None]
  /\ UNCHANGED <<jobs, jobFile, pending, due, now, nextId, resolved>>

\* JobStore.mark_run: the store after the call (only the date of last_run is read)
mark_run(js, id, t) ==
  IF id \in DOMAIN js THEN [js EXCEPT ![id].last_run = [day |-> t.day]] ELSE js

\* what the job callback does: it returns, it raises an Exception, or a
\* BaseException that is no Exception leaves it (the SystemExit of a skill's
\* code, which neither executor.execute nor _execute_scheduled_job catches)
Callbacks == {"returns", "exception", "base"}

\* Scheduler._job_trigger for a trigger of the job queue that fires: a daily one
\* whose time has come, a repeating one (at any moment), a one-off (which is
\* then gone from the queue); "except Exception" contains what it names
JobTrigger(trig, cb) ==
  /\ ~Crashed
  /\ BagIn(trig, triggers)
  /\ IF Quiet THEN trig.kind \in {"once", "repeating"} ELSE BagIn(trig, due)
  /\ jobs' = mark_run(jobs, trig.job, now)
  /\ jobFile' = IF trig.job \in DOMAIN jobs THEN store_save(jobs') ELSE jobFile
  /\ triggers' = IF trig.kind = "once" THEN triggers (-) SetToBag({trig}) ELSE triggers
  /\ due' = IF Quiet THEN due ELSE due (-) SetToBag({trig})
  /\ schedOp' = [op |-> "_job_trigger", id |-> trig.job,
                 ret |-> IF cb = "base" THEN Raised ELSE None, found |-> None]
  /\ togSnap' = None
  /\ UNCHANGED <<pending, now, started, nextId, resolved>>

\* the number run_daily has for a weekday of datetime (Monday is 0 there):
\* python-telegram-bot counts the days of run_daily from Sunday = 0 since
\* version 20, the first to have telegram.ext.Application
run_daily_day(wd) == (wd + 1) % 7

\* the daily triggers whose time lies in (from, to] of a day with that weekday
DueBetween(trigs, wd, from, to) ==
  [t \in {x \in DOMAIN trigs :
            /\ x.kind = "daily"
            /\ x.days = None \/ run_daily_day(wd) \in Range(x.days.t)
            /\ from < x.time.hour * 60 + x.time.minute
            /\ x.time.hour * 60 + x.time.minute <= to} |-> trigs[t]]

\* the clock moves on to its next instant; a one-off trigger (due 5 s after it
\* was scheduled) has fired before
Tick ==
  /\ Quiet
  /\ \A x \in DOMAIN triggers : x.kind # "once"
  /\ IF now.tod < Len(Instants)
       THEN /\ now' = [now EXCEPT !.tod = @ + 1]
            /\ due' = DueBetween(triggers, weekday(now.day),
                                 Instants[now.tod], Instants[now.tod + 1])
       ELSE /\ now.day < MaxDay
            /\ now' = [day |-> now.day + 1, tod |-> 1]
            /\ due' = DueBetween(triggers, weekday(now.day), Instants[now.tod], 24 * 60)
                      (+) DueBetween(triggers, weekday(now.day + 1), -1, Instants[1])
  /\ schedOp' = [op |-> "tick", id |-> 0, ret |-> None, found |-> None]
  /\ togSnap' = None
  /\ UNCHANGED <<jobs, jobFile, pending, triggers, started, nextId, resolved>>

(***************************************************************************)
(* process_message and the tool-calling loop of handle_with_tool_calling.  *)
(* The messages list of a run is not kept: it only feeds the provider,     *)
(* whose answers are arbitrary here.                                       *)
(***************************************************************************)
MAX_TOOL_ITERATIONS == 10

\* the entries the conversation is cut to (conversation[-20:], messages[-20:])
HistoryLimit == 20

\* the tool calls one provider response carries at most
MaxToolCalls == 2

\* the messages that get a final answer
MaxMessages == 11

\* (mutant) the first n entries are kept
KeepFirst(s, n) == IF Len(s) <= n THEN s ELSE SubSeq(s, 1, n)

\* s[-n:]
KeepLast(s, n) == IF Len(s) <= n THEN s ELSE SubSeq(s, Len(s) - n + 1, Len(s))

\* the two entries a final answer appends: the user message and the response
Pair(k) == <<[role |-> "user", n |-> k], [role |-> "assistant", n |-> k]>>

\* what a provider may answer: a text (possibly empty) without tool calls, or
\* up to MaxToolCalls tool calls
Responses ==
  {[text |-> t, calls |-> 0] : t \in {"text", ""}} \cup
  {[text |-> "", calls |-> c] : c \in 1..MaxToolCalls}

\* result.text or "I processed your request."
ResponseText(text) == IF text = "" THEN "I processed your request." ELSE text

\* what executor.execute() gives for a tool call: a plain result or error text,
\* one of the scheduler sentinels, or an exception that escapes execute()
ExecOutcomes ==
  {"plain", "raise", "confirm", "delete", "toggleOn", "toggleOff", "toggleBad"}

\* the payload of the CONFIRM_SCHEDULE sentinel of the model
ConfirmPayload ==
  LET c == <<Lit(0), Lit(9), Star, Star, Star>>
  IN [task |-> <<"task", c>>, cron |-> c, description |-> <<"description", c>>]

\* the record of a run: the provider calls made, whether every response
\* carried tool calls, whether none did, the text of the last response, how
\* the run ended, the final answer, the replies sent
NewRun ==
  [calls |-> 0, allTool |-> TRUE, noTool |-> TRUE, text |-> "none",
   outcome |-> "running", answer |-> "none", replies |-> {}]

\* no tool call asked for, no tool result appended
NoResults == [asked |-> 0, out |-> <<>>]

\* add_tool_result: one more result at the end of messages; executed tells
\* whether executor.execute ran for the call
add_tool_result(res, text, executed) ==
  [res EXCEPT !.out = Append(@, [text |-> text, executed |-> executed])]

\* process_message up to the first provider call of handle_with_tool_calling:
\* the conversation is loaded if absent, the tool definitions are built, the
\* loop is entered
Receive ==
  /\ pc = "idle"
  /\ appended < MaxMessages
  /\ get_all_tool_definitions
  /\ conv' = IF hasConv THEN conv ELSE disk
  /\ hasConv' = TRUE
  /\ iterations' = 1
  /\ remaining' = 0
  /\ run' = NewRun
  /\ pc' = "provider"
  /\ toolResults' = NoResults
  /\ late' = FALSE
  /\ UNCHANGED <<lastSkill, disk, fullHistory, appended>>

\* provider.generate_with_tools returns
ProviderReturns(resp) ==
  /\ pc = "provider"
  /\ ~late
  /\ toolResults' = [asked |-> resp.calls, out |-> <<>>]
  /\ UNCHANGED late
  /\ IF resp.calls = 0
       THEN /\ conv' = KeepLast(conv \o Pair(appended + 1), HistoryLimit)
            /\ disk' = KeepLast(KeepLast(conv \o Pair(appended + 1), HistoryLimit),
                                HistoryLimit)
            /\ fullHistory' = fullHistory \o Pair(appended + 1)
            /\ appended' = appended + 1
            /\ run' = [run EXCEPT !.calls = @ + 1, !.allTool = FALSE,
                                  !.text = resp.text,
                                  !.answer = ResponseText(resp.text)]
            /\ pc' = "sending"
            /\ UNCHANGED remaining
       ELSE /\ run' = [run EXCEPT !.calls = @ + 1, !.noTool = FALSE]
            /\ remaining' = resp.calls
            /\ pc' = "tools"
            /\ UNCHANGED <<conv, disk, fullHistory, appended>>
  /\ UNCHANGED <<iterations, hasConv>>

\* the run is over: its local variables are gone (the tool results of a round
\* that an exception broke off are kept for inspection)
EndRun(outcome, reply) ==
  /\ run' = [run EXCEPT !.outcome = outcome, !.replies = @ \cup reply]
  /\ pc' = "idle"
  /\ iterations' = 0
  /\ remaining' = 0
  /\ toolResults' = IF outcome = "fault" THEN toolResults ELSE NoResults
  /\ late' = FALSE

\* provider.generate_with_tools raises: nothing in process_message catches it
ProviderRaises ==
  /\ pc = "provider"
  /\ ~late
  /\ EndRun("error", {})
  /\ UNCHANGED <<conv, hasConv, disk, fullHistory, appended>>

\* the loop after a tool call: the next call, the next round, or the end
AfterToolCall ==
  /\ remaining' = remaining - 1
  /\ IF remaining > 1 THEN pc' = "tools" /\ UNCHANGED iterations
     ELSE IF iterations < MAX_TOOL_ITERATIONS
       THEN pc' = "provider" /\ iterations' = iterations + 1
       ELSE pc' = "maxreply" /\ UNCHANGED iterations

\* execute_tool_call for a skill that skill_parser.get_skill does not find
ToolNotFound ==
  /\ pc = "tools"
  /\ AfterToolCall
  /\ toolResults' = add_tool_result(toolResults, "not found", FALSE)
  /\ UNCHANGED <<run, conv, hasConv, disk, fullHistory, appended, late>>
  /\ UNCHANGED varsSched

\* the scheduler call a sentinel led to, as schedOp notes it
SentinelOp(op, id, flag) == [op |-> op, id |-> id, ret |-> flag, found |-> None]

\* execute_tool_call for a skill that is found: executor.execute and the
\* handling of its result text
ExecuteToolCall(out, id) ==
  /\ pc = "tools"
  /\ UNCHANGED <<conv, hasConv, disk, fullHistory, appended>>
  /\ CASE out = "plain" ->
            /\ AfterToolCall
            /\ toolResults' = add_tool_result(toolResults, "result", TRUE)
            /\ UNCHANGED <<run, late, varsSched>>
       [] out \in {"raise", "toggleBad"} ->
            /\ EndRun("fault", {})
            /\ UNCHANGED varsSched
       [] out = "confirm" ->
            /\ nextId <= MaxIds
            /\ pending' = (nextId :> PendingJob(ConfirmPayload)) @@ pending
            /\ nextId' = nextId + 1
            /\ resolved' = (nextId :> [calls |-> 0, made |-> 0, how |-> ""]) @@ resolved
            /\ schedOp' = [op |-> "add_pending", id |-> nextId, ret |-> None,
                           found |-> None]
            /\ togSnap' = None
            /\ IF late
                 \* the reply_text of the dialog is a point where the run is cancelled
                 THEN EndRun("timeout", {"timeout"})
                 ELSE /\ run' = [run EXCEPT !.replies = @ \cup {"dialog"}]
                      /\ AfterToolCall
                      /\ toolResults' = add_tool_result(toolResults, "dialog shown", TRUE)
                      /\ UNCHANGED late
            /\ UNCHANGED <<jobs, jobFile, triggers, due, now, started>>
       [] out = "delete" ->
            /\ triggers' = unregister_job(triggers, id)
            /\ schedOp' = SentinelOp("SCHEDULER_DELETE", id, None)
            /\ AfterToolCall
            /\ toolResults' = add_tool_result(toolResults, "deleted", TRUE)
            /\ UNCHANGED <<run, late, jobs, jobFile, pending, due, now, started, nextId,
                           resolved, togSnap>>
       [] out = "toggleOn" ->
            /\ LET reg == IF id \in DOMAIN jobs
                            THEN register_job(triggers, jobs[id], id, now)
                            ELSE [raised |-> FALSE, triggers |-> triggers]
               IN /\ OnceCount(reg.triggers) <= MaxCatchups
                  /\ triggers' = reg.triggers
                  /\ IF reg.raised
                       THEN EndRun("fault", {}) /\ UNCHANGED schedOp
                       ELSE /\ AfterToolCall
                            /\ schedOp' = SentinelOp("SCHEDULER_TOGGLE", id, Ret(TRUE))
                            /\ toolResults' = add_tool_result(toolResults, "resumed", TRUE)
                            /\ UNCHANGED <<run, late>>
            /\ UNCHANGED <<jobs, jobFile, pending, due, now, started, nextId,
                           resolved, togSnap>>
       [] out = "toggleOff" ->
            /\ triggers' = IF id \in DOMAIN jobs THEN unregister_job(triggers, id)
                           ELSE triggers
            /\ schedOp' = SentinelOp("SCHEDULER_TOGGLE", id, Ret(FALSE))
            /\ AfterToolCall
            /\ toolResults' = add_tool_result(toolResults, "paused", TRUE)
            /\ UNCHANGED <<run, late, jobs, jobFile, pending, due, now, started, nextId,
                           resolved, togSnap>>

\* PROCESSING_TIMEOUT passes while executor.execute blocks the event loop: the
\* timer of asyncio.wait_for cannot run before the coroutine awaits something
DeadlineWhileBlocked ==
  /\ pc = "tools"
  /\ ~late
  /\ toolResults.out # <<>>
  /\ toolResults.out[Len(toolResults.out)].executed
  /\ late' = TRUE
  /\ UNCHANGED <<pc, iterations, remaining, run, conv, hasConv, disk, fullHistory,
                 appended, toolResults>>

\* send_formatted has delivered the final answer
SendFinal ==
  /\ pc = "sending"
  /\ EndRun("final", {"answer"})
  /\ UNCHANGED <<conv, hasConv, disk, fullHistory, appended>>

\* the reply after the loop: the maximum number of tool calls is reached
SendMax ==
  /\ pc = "maxreply"
  /\ ~late
  /\ EndRun("max", {"max"})
  /\ UNCHANGED <<conv, hasConv, disk, fullHistory, appended>>

\* asyncio.wait_for: PROCESSING_TIMEOUT is over; the run is cancelled where it
\* awaits and process_message sends the timeout reply
Timeout ==
  /\ pc \in {"provider", "sending", "maxreply"}
  /\ EndRun("timeout", {"timeout"})
  /\ UNCHANGED <<conv, hasConv, disk, fullHistory, appended>>

(***************************************************************************)
(* TeleAgent._execute_scheduled_job: what a fired job does.                *)
(*                                                                         *)
(* A provider response is the sequence of its tool calls, each named by    *)
(* what becomes of it: "skill" (the skill exists and returns a result),    *)
(* "sentinel" (the skill exists and returns a scheduler sentinel such as   *)
(* SCHEDULER_DELETE:<id>), "raises" (execute() raises), "unknown" (no      *)
(* skill of that name).                                                    *)
(***************************************************************************)
ToolKinds == {"skill", "sentinel", "raises", "unknown"}

\* the responses generate_with_tools can return: no tool call (a text), or up
\* to MaxToolCalls tool calls
JobResponses ==
  {[tool_calls |-> c, text |-> t] :
     c \in UNION {[1..n -> ToolKinds] : n \in 0..MaxToolCalls}, t \in BOOLEAN}

\* the state at the top of _execute_scheduled_job
NewJobRun ==
  [calls |-> 0, asked |-> 0, fed |-> 0, leaked |-> 0, lastTools |-> 0,
   todo |-> <<>>, reply |-> "none", outcome |-> "running"]

\* _job_trigger calls the callback: the notification is sent, the messages built
JobFires ==
  /\ jobPc = "idle"
  /\ jobPc' = "provider"
  /\ jobRun' = NewJobRun

\* provider.generate_with_tools returns: the first response's tool calls are
\* executed, the second response is the final one whatever it holds
JobProviderReturns(resp) ==
  /\ jobPc = "provider"
  /\ jobRun' = [jobRun EXCEPT
       !.calls = @ + 1,
       !.lastTools = Len(resp.tool_calls),
       !.asked = IF jobRun.calls = 0 THEN Len(resp.tool_calls) ELSE @,
       !.todo = IF jobRun.calls = 0 THEN resp.tool_calls ELSE <<>>,
       !.reply = IF resp.text THEN "text" ELSE "Task completed."]
  /\ jobPc' = IF jobRun.calls = 0 /\ Len(resp.tool_calls) > 0 THEN "tools" ELSE "send"

\* the provider, or a send, raises: except Exception reports the failure
JobProviderRaises ==
  /\ jobPc = "provider"
  /\ jobRun' = [jobRun EXCEPT !.outcome = "failed", !.todo = <<>>]
  /\ jobPc' = "idle"

\* one pass of the loop over result.tool_calls
JobToolCall ==
  /\ jobPc = "tools"
  /\ LET kind == Head(jobRun.todo)
         rest == Tail(jobRun.todo)
     IN IF kind = "raises"
          THEN /\ jobRun' = [jobRun EXCEPT !.outcome = "failed", !.todo = <<>>]
               /\ jobPc' = "idle"
          ELSE /\ jobRun' = [jobRun EXCEPT
                    !.todo = rest,
                    !.fed = IF kind = "unknown" THEN @ ELSE @ + 1,
                    !.leaked = IF kind = "sentinel" THEN @ + 1 ELSE @]
               /\ jobPc' = IF rest = <<>> THEN "provider" ELSE "tools"

\* the final text (or "Task completed.") is sent to the admin
JobSend ==
  /\ jobPc = "send"
  /\ jobRun' = [jobRun EXCEPT !.outcome = "delivered"]
  /\ jobPc' = "idle"

(***************************************************************************)
(* The Application's dispatch of the admin's messages to process_message.  *)
(*                                                                         *)
(* A run is a call of process_message; it stands at an await of the        *)
(* provider ("provider"), at the execution of tool calls ("tools"), or has *)
(* ended with an outcome.  The loop's counter is not tracked here: the     *)
(* round limit may strike after any round of tool calls.                   *)
(***************************************************************************)
\* bound: the messages the admin sends
MaxUpdates == 3

\* (mutant) Application.builder().concurrent_updates(True)
concurrent_updates_on == TRUE

\* Application.builder().token(...).build(): concurrent_updates keeps its
\* default, and the handlers are added with the default block=True, so the
\* update fetcher awaits a handler before it takes the next update
concurrent_updates == FALSE

RunEndings == {"answer", "limit", "timeout", "fault"}

ActiveRuns == {i \in DOMAIN runs : runs[i] \notin RunEndings}

\* the admin sends a message: Telegram delivers an update
MessageArrives ==
  /\ updateQueue + Len(runs) < MaxUpdates
  /\ updateQueue' = updateQueue + 1
  /\ UNCHANGED runs

\* the update fetcher takes the next update and calls handle_message, which
\* calls process_message: the run stands at its first generate_with_tools
Dispatch ==
  /\ updateQueue > 0
  /\ concurrent_updates \/ ActiveRuns = {}
  /\ updateQueue' = updateQueue - 1
  /\ runs' = Append(runs, "provider")

\* a step of run i: the provider answers with tool calls or a final text, the
\* tool calls are executed, the round limit is reached
RunStep(i, to) ==
  /\ i \in ActiveRuns
  /\ \/ runs[i] = "provider" /\ to \in {"tools", "answer"}
     \/ runs[i] = "tools" /\ to \in {"provider", "limit"}
  /\ runs' = [runs EXCEPT ![i] = to]
  /\ UNCHANGED updateQueue

\* wait_for cancels run i at its await (asyncio.TimeoutError), or the provider
\* raises and the exception leaves process_message
RunAborts(i, how) ==
  /\ i \in ActiveRuns
  /\ runs[i] = "provider"
  /\ how \in {"timeout", "fault"}
  /\ runs' = [runs EXCEPT ![i] = how]
  /\ UNCHANGED updateQueue

(***************************************************************************)
(* ConversationGraph: process_learning -> generate_skill -> test_skill ->  *)
(* save_skill.  A generated code is named by a number of Codes; 0 stands   *)
(* for no pending code (None or "").                                       *)
(***************************************************************************)
NoPending == 0

\* what SkillGenerator.generate_skill can do: return a Skill with a code, return
\* None, raise
Generations == {[code |-> c] : c \in Codes} \cup {None, Raised}

\* a run enters the graph with the GraphState the caller passes: its
\* pending_skill_code is None, or the one the last run left (the graph is
\* compiled with a MemorySaver checkpointer, thread_id the user's id);
\* _route_after_learning sends "generate" on to generate_skill, and ends the
\* run on "continue" and "cancel"
TeachRun(carried, route) ==
  /\ teachPc = "END"
  /\ teach' = [pending |-> IF carried THEN teach.pending ELSE NoPending,
               generated |-> FALSE, tested |-> NoPending, next_action |-> route,
               saved |-> NoPending, indexed |-> FALSE]
  /\ teachPc' = IF route = "generate" THEN "generate_skill" ELSE "END"

\* _generate_skill: pending_skill_code is set only when a skill came back; the
\* edge to test_skill is unconditional
GenerateSkill(gen) ==
  /\ teachPc = "generate_skill"
  /\ teach' = IF gen \notin {None, Raised}
                THEN [teach EXCEPT !.pending = gen.code, !.generated = TRUE]
                ELSE teach
  /\ teachPc' = "test_skill"

\* _test_skill and _route_after_test: without code the run ends ("retry");
\* otherwise executor.test_skill runs the code and its success decides
TestSkill(success) ==
  /\ teachPc = "test_skill"
  /\ IF teach.pending = NoPending \/ ~success
       THEN /\ teach' = [teach EXCEPT !.next_action = "retry"]
            /\ teachPc' = "END"
       ELSE /\ teach' = [teach EXCEPT !.next_action = "save", !.tested = teach.pending]
            /\ teachPc' = "save_skill"

\* _save_skill: skill_parser.save_skill writes the document and the Skill Store
\* entry, vector_store.index_skill indexes it (or raises), the pending code is
\* cleared
TeachSave(n, index_ok) ==
  /\ teachPc = "save_skill"
  /\ SaveSkill(n, teach.pending)
  /\ teach' = [teach EXCEPT !.saved = teach.pending, !.indexed = index_ok,
                           !.pending = IF index_ok THEN NoPending ELSE @]
  /\ teachPc' = "END"

(***************************************************************************)
(* On-disk writes: JobStore._save, save_conversation_history and           *)
(* SkillParser.save_skill all write with Path.write_text, which opens the  *)
(* file itself for writing (truncating it) and then writes the text.  A    *)
(* document is the sequence of its records.                                *)
(***************************************************************************)
\* bound: the records a document holds
MaxRecords == 2

\* the persisted files written this way
Files == {"jobs", "conversation", "skill"}

Documents == {SeqOfSet(S) : S \in SUBSET (1..MaxRecords)}

\* Path.write_text, first half: open(path, "w") truncates the file
WriteBegin(which, new) ==
  /\ writer.pc = "idle"
  /\ which = fileOnDisk.which
  /\ new # fileOnDisk.records
  /\ writer' = [pc |-> "writing", prev |-> fileOnDisk.records, new |-> new,
                loaded |-> None]
  /\ fileOnDisk' = [which |-> which, records |-> <<>>, whole |-> FALSE]

\* Path.write_text, second half: the text reaches the file piece by piece; with
\* the last piece the document is complete and the file is closed
WriteMore ==
  /\ writer.pc = "writing"
  /\ LET n == Len(fileOnDisk.records) IN
       IF n < Len(writer.new)
         THEN /\ fileOnDisk' = [fileOnDisk EXCEPT !.records = Append(@, writer.new[n + 1])]
              /\ UNCHANGED writer
         ELSE /\ fileOnDisk' = [fileOnDisk EXCEPT !.whole = TRUE]
              /\ writer' = [writer EXCEPT !.pc = "idle"]

\* the process stops (is killed, the host loses power)
ProcessStops ==
  /\ writer.pc \in {"idle", "writing"}
  /\ writer' = [writer EXCEPT !.pc = "stopped"]
  /\ UNCHANGED fileOnDisk

\* the next start loads the file: JobStore._load and load_conversation_history
\* catch the error of json.loads and start empty, parse_file finds no complete
\* code block and returns None
LoadAfterRestart ==
  /\ writer.pc = "stopped"
  /\ writer' = [writer EXCEPT !.pc = "idle",
                              !.loaded = IF fileOnDisk.whole THEN fileOnDisk.records
                                         ELSE <<>>]
  /\ UNCHANGED fileOnDisk

(***************************************************************************)
(* SkillParser at the level of the text.  A document is [readable, lines]: *)
(* whether frontmatter.load reads it, and the lines of its content.  A     *)
(* line is one of a few texts; whitespace inside a line is not modelled.   *)
(***************************************************************************)
HDescription == "# Description"
HDependencies == "# Dependencies"
HCode == "# Code"
\* the opening and the closing fence of a code block (three backticks)
Fence == "[fence]python"
FenceEnd == "[fence]"
Blank == ""

\* lines with a "#" in their first column: what the lookahead (?=\n#|\Z) of
\* DESCRIPTION_PATTERN and DEPENDENCIES_PATTERN stops at
StartsHash(l) == l \in {HDescription, HDependencies, HCode, "# note"}

\* lines that hold a fence: what ends the capture of CODE_PATTERN
HasFence(l) == l \in {Fence, FenceEnd}

\* str.strip() of a text of several lines: leading and trailing blank lines go
strip(ls) ==
  LET nb == {i \in DOMAIN ls : ls[i] # Blank} IN
  IF nb = {} THEN <<>>
  ELSE SubSeq(ls, CHOOSE i \in nb : \A j \in nb : i <= j,
                  CHOOSE i \in nb : \A j \in nb : j <= i)

\* the first index above i of a line that is not blank (Len + 1 when none):
\* where the capture begins, "\s*\n" having consumed the blank lines
AfterBlanks(ls, i) ==
  LET c == {j \in DOMAIN ls : j > i /\ ls[j] # Blank} IN
  IF c = {} THEN Len(ls) + 1 ELSE CHOOSE j \in c : \A k \in c : j <= k

\* group(1) of r"#\s*<header>\s*\n(.*?)(?=\n#|\Z)" with re.DOTALL, searched in
\* the content: from the first line after the header that is not blank up to
\* the line before the next line that starts with "#", or to the end;
\* None when the pattern does not match
section(ls, header) ==
  LET hs == {i \in DOMAIN ls : ls[i] = header} IN
  IF hs = {} THEN None
  ELSE LET i == CHOOSE x \in hs : \A y \in hs : x <= y
           j == AfterBlanks(ls, i)
           ends == {k \in j..Len(ls) : k = Len(ls) \/ StartsHash(ls[k + 1])}
       IN IF j > Len(ls) THEN [text |-> <<>>]
          ELSE [text |-> SubSeq(ls, j, CHOOSE k \in ends : \A m \in ends : k <= m)]

\* group(1) of CODE_PATTERN (opening fence, "\s*\n", a lazy capture, three
\* backticks): from the first line after the opening fence that is not blank up
\* to the next line holding a fence; None when no such line follows
code_block(ls) ==
  LET fs == {i \in DOMAIN ls : ls[i] = Fence} IN
  IF fs = {} THEN None
  ELSE LET i == CHOOSE x \in fs : \A y \in fs : x <= y
           j == AfterBlanks(ls, i)
           closes == {k \in j..Len(ls) : HasFence(ls[k])}
       IN IF closes = {} THEN None
          ELSE [text |-> SubSeq(ls, j, (CHOOSE k \in closes : \A m \in closes : k <= m) - 1)]

\* the package names of the pool, and the list item that names each
Packages == {"requests"}
item_line(dep) == "- " \o dep

RECURSIVE list_items(_)
\* the loop over the lines of the dependencies section: a line that starts with
\* "-" or "*" gives a dependency, any other line is passed over
list_items(ls) ==
  IF ls = <<>> THEN <<>>
  ELSE LET deps == {d \in Packages : item_line(d) = Head(ls)} IN
       (IF deps = {} THEN <<>> ELSE <<CHOOSE d \in deps : TRUE>>) \o list_items(Tail(ls))

\* parse_file without its check of the code ("if not code: return None")
parse_file_keeps_empty(doc) ==
  IF ~doc.readable THEN None
  ELSE LET desc == section(doc.lines, HDescription)
           deps == section(doc.lines, HDependencies)
           block == code_block(doc.lines)
       IN [description |-> IF desc = None THEN <<>> ELSE strip(desc.text),
           dependencies |-> IF deps = None THEN <<>> ELSE list_items(strip(deps.text)),
           code |-> IF block = None THEN <<>> ELSE strip(block.text)]

\* SkillParser.parse_file: None when frontmatter.load raises (the exception is
\* caught) and when there is no code block or an empty one
parse_file(doc) ==
  IF ~doc.readable THEN None
  ELSE LET desc == section(doc.lines, HDescription)
           deps == section(doc.lines, HDependencies)
           block == code_block(doc.lines)
           code == IF block = None THEN <<>> ELSE strip(block.text)
       IN IF code = <<>> THEN None
          ELSE [description |-> IF desc = None THEN <<>> ELSE strip(desc.text),
                dependencies |-> IF deps = None THEN <<>> ELSE list_items(strip(deps.text)),
                code |-> code]

RECURSIVE item_lines(_)
item_lines(deps) ==
  IF deps = <<>> THEN <<>> ELSE <<item_line(Head(deps))>> \o item_lines(Tail(deps))

\* a text of the f-string of save_skill: an empty text still leaves its line
TextLines(text) == IF text = <<>> THEN <<Blank>> ELSE text

\* SkillParser.save_skill: the document written for a skill (the front matter
\* holds title, author and created, which frontmatter.load takes off again)
save_skill(skill) ==
  [readable |-> TRUE,
   lines |-> <<Blank, HDescription>> \o TextLines(skill.description)
             \o <<Blank, HDependencies>> \o TextLines(item_lines(skill.dependencies))
             \o <<Blank, HCode, Fence>> \o TextLines(skill.code) \o <<FenceEnd>>]

\* ---- the documents of the pool
\* bound: the documents of the skills directory
NumDocs == 2

DocNames == 1..NumDocs

\* the source bodies of the pool: with the entry function, without it
Bodies == {<<"def execute():">>, <<"x = 1">>, <<"# note", "def execute():">>}

\* a description section: none, an empty one, one line, a heading in it
DescriptionParts ==
  {<<>>, <<HDescription, Blank>>, <<HDescription, "about">>,
   <<HDescription, "about", "# note">>}

\* a dependencies section: none, an empty one, one item
DependencyParts ==
  {<<>>, <<HDependencies, Blank>>, <<HDependencies, "- requests", Blank>>}

\* a code section: none, an empty block, a block that is not closed, a body
CodeParts ==
  {<<>>, <<HCode, Fence, FenceEnd>>, <<HCode, Fence, "def execute():">>}
  \cup {<<HCode, Fence>> \o b \o <<FenceEnd>> : b \in Bodies}

SkillDocuments ==
  {[readable |-> r, lines |-> d \o p \o c] :
     r \in BOOLEAN, d \in DescriptionParts, p \in DependencyParts, c \in CodeParts}

\* ---- the operations of the SkillParser
\* SkillParser.load_all_skills: the cache is cleared, every *.md file is parsed,
\* and what parse_file returns for it, if not None, cached and returned
LoadAllSkills ==
  LET good == {n \in DOMAIN docs : parse_file(docs[n]) # None} IN
  /\ parsedSkills' = [n \in good |-> parse_file(docs[n])]
  /\ parserOp' = [op |-> "load_all_skills", name |-> 0, ret |-> good]
  /\ UNCHANGED docs

\* SkillParser.reload_skill
ReloadOne(n) ==
  LET skill == IF n \in DOMAIN docs THEN parse_file(docs[n]) ELSE None IN
  /\ parsedSkills' = IF skill = None THEN parsedSkills
               ELSE [m \in DOMAIN parsedSkills \cup {n} |-> IF m = n THEN skill ELSE parsedSkills[m]]
  /\ parserOp' = [op |-> "reload_skill", name |-> n, ret |-> skill]
  /\ UNCHANGED docs

\* SkillParser.save_skill of a cached skill (as parse_file returned it): the
\* document is written again from the fields of the Skill
SaveParsed(n) ==
  /\ n \in DOMAIN parsedSkills
  /\ docs' = [m \in DOMAIN docs \cup {n} |-> IF m = n THEN save_skill(parsedSkills[n]) ELSE docs[m]]
  /\ parserOp' = [op |-> "save_skill", name |-> n, ret |-> parsedSkills[n]]
  /\ UNCHANGED parsedSkills

(***************************************************************************)
(* ToolRegistry: from the source of a skill to its ToolDefinition.          *)
(* A source is what ast.parse makes of it: it parses or raises SyntaxError, *)
(* and the entry function has a list of parameters, each positional-or-     *)
(* keyword ("arg", in args.args) or keyword-only ("kwonly", in              *)
(* args.kwonlyargs), with or without a default.                             *)
(***************************************************************************)
\* bound: the parameters of an entry function
MaxParams == 2

ParamNames == {"self", "city", "units"}

Parameters == [name : ParamNames, kind : {"arg", "kwonly"}, default : BOOLEAN]

\* what Python accepts as a parameter list: distinct names; keyword-only
\* parameters after the others; among the others no parameter without a
\* default after one with a default. The pool has self only as the implicit
\* first parameter.
ValidSignature(ps) ==
  /\ \A i, j \in DOMAIN ps : i # j => ps[i].name # ps[j].name
  /\ \A i \in DOMAIN ps :
       ps[i].name = "self" => i = 1 /\ ps[i].kind = "arg" /\ ~ps[i].default
  /\ \A i, j \in DOMAIN ps :
       i < j => /\ ps[i].kind = "kwonly" => ps[j].kind = "kwonly"
                /\ (ps[i].kind = "arg" /\ ps[j].kind = "arg" /\ ps[i].default)
                     => ps[j].default

Signatures ==
  {ps \in UNION {[1..n -> Parameters] : n \in 0..MaxParams} : ValidSignature(ps)}

\* the sources of the pool: every signature, and a source ast.parse rejects
SkillSources ==
  {[parses |-> TRUE, params |-> ps] : ps \in Signatures}
  \cup {[parses |-> FALSE, params |-> <<>>]}

SourceNames == {"weather", "notes"}

\* node.args.args of the entry function
args_args(code) == SelectSeq(code.params, LAMBDA q : q.kind = "arg")

\* len(node.args.defaults): the defaults of the parameters of args.args
num_defaults(code) == Len(SelectSeq(args_args(code), LAMBDA q : q.default))

\* ToolRegistry._parse_function_signature: the ParameterInfo list. A
\* SyntaxError of ast.parse is caught inside and the empty list returned. The
\* loop runs over args.args only; has_default compares the index (from 0) with
\* defaults_start; a parameter named self is passed over.
parse_function_signature(code) ==
  IF ~code.parses THEN <<>>
  ELSE LET args == args_args(code)
           defaults_start == Len(args) - num_defaults(code)
           infos == [i \in 1..Len(args) |->
                       [name |-> args[i].name, has_default |-> (i - 1) >= defaults_start]]
       IN SelectSeq(infos, LAMBDA q : q.name # "self")

\* ToolRegistry.skill_to_tool_definition: the parameters schema of the
\* ToolDefinition, a property for every ParameterInfo and the required list
\* of those without a default
tool_definition(n, code) ==
  LET params == parse_function_signature(code)
      required == SelectSeq(params, LAMBDA q : ~q.has_default)
  IN [name |-> n,
      properties |-> {params[i].name : i \in DOMAIN params},
      required |-> [i \in DOMAIN required |-> required[i].name]]

\* ToolRegistry.get_all_tool_definitions: for every enabled skill the cached
\* definition or a new one, which is cached; the except branch of the loop is
\* taken only when skill_to_tool_definition raises, which it never does, the
\* parse error being caught inside _parse_function_signature
GetAllToolDefinitions ==
  LET enabled == {n \in DOMAIN sources : sources[n].enabled}
      tool(n) == IF n \in DOMAIN defCache THEN defCache[n]
                 ELSE tool_definition(n, sources[n].code)
  IN /\ defsOut' = [n \in enabled |-> tool(n)]
     /\ defCache' = [n \in DOMAIN defCache \cup enabled |-> tool(n)]
     /\ UNCHANGED sources

\* ToolRegistry.clear_cache
ClearCache ==
  /\ defCache # <<>>
  /\ defCache' = <<>>
  /\ defsOut' = None
  /\ UNCHANGED sources

\* the admin enables or disables a skill (skill.enabled is set)
SetEnabled(n) ==
  /\ sources' = [sources EXCEPT ![n].enabled = ~@]
  /\ defsOut' = None
  /\ UNCHANGED defCache

(***************************************************************************)
(* SkillExecutor._execute_code: the globals the code runs in, and the       *)
(* capture of sys.stdout. Every message and every fired job makes its own   *)
(* SkillExecutor, so each call here runs on a thread of its own; execute()  *)
(* blocks its caller, so a call begins only when the earlier ones have      *)
(* returned or have been abandoned by a timeout.                            *)
(***************************************************************************)
\* bound: the _execute_code calls of a behaviour
MaxSandboxRuns == 3

\* sys.stdout before any capture
Original == 0

\* SkillExecutor.SAFE_BUILTINS, of which the pool uses len and print
SAFE_BUILTINS == {"len", "print", "__import__"}

\* the builtins module of the interpreter: the allow-list and more
Builtins == SAFE_BUILTINS \cup {"open", "eval", "exec"}

\* the built-in names a skill's source refers to: one source within the
\* allow-list, one that opens a file and evaluates a string
SourceBuiltins == {{"len", "print"}, {"print", "open", "eval"}}

\* SkillExecutor._create_sandbox_globals: "__builtins__" is bound to the
\* interpreter's own __builtins__
create_sandbox_globals == Builtins

\* the calls whose thread still runs
RunningExecs == {i \in DOMAIN execs : execs[i].pc \in {"running", "abandoned"}}

\* _execute_code begins: the current sys.stdout is kept as old_stdout and
\* replaced by a new StringIO; exec(code, sandbox, sandbox) resolves the names
\* of the source in the sandbox's builtins
SandboxBegin(names) ==
  /\ Len(execs) < MaxSandboxRuns
  /\ \A i \in DOMAIN execs : execs[i].pc # "running"
  /\ execs' = Append(execs, [pc |-> "running", old |-> sysStdout, buffer |-> {},
                             names |-> names,
                             resolved |-> names \cap create_sandbox_globals,
                             stdout |-> None])
  /\ sysStdout' = Len(execs) + 1

\* the skill of call i prints: the text goes to whatever sys.stdout is now
SandboxPrint(i) ==
  /\ i \in RunningExecs
  /\ sysStdout # Original
  /\ i \notin execs[sysStdout].buffer
  /\ execs' = [execs EXCEPT ![sysStdout].buffer = @ \cup {i}]
  /\ UNCHANGED sysStdout

\* future.result(timeout) raises: execute() returns the timeout failure, the
\* thread of the call goes on
SandboxTimeout(i) ==
  /\ i \in DOMAIN execs
  /\ execs[i].pc = "running"
  /\ execs' = [execs EXCEPT ![i].pc = "abandoned"]
  /\ UNCHANGED sysStdout

\* the call ends: stdout_capture.getvalue() is returned (to a caller that
\* still waits), and the finally block puts old_stdout back
SandboxEnd(i) ==
  /\ i \in RunningExecs
  /\ execs' = [execs EXCEPT ![i].pc = "done",
                            ![i].stdout = IF execs[i].pc = "running"
                                          THEN [text |-> execs[i].buffer] ELSE None]
  /\ sysStdout' = execs[i].old

\* the callers of a skill: execute_tool_call of the interactive loop, and the
\* loop over tool_calls of _execute_scheduled_job
ToolCallers == {"interactive", "job"}

\* a tool call of a provider response names skill n: skill_parser.get_skill(n)
\* and, if it returns a skill, executor.execute(skill, arguments); the enabled
\* flag of the skill is not read by either caller
ExecuteNamedSkill(caller, n, beh) ==
  /\ lastSkill' = [name |-> n, skill |-> get_skill(skills, n), caller |-> caller]
  /\ skillOp' = "execute_tool_call"
  /\ UNCHANGED <<skills, skillFiles, tools_cache, lastTools>>
  /\ IF get_skill(skills, n) = None
       THEN UNCHANGED varsExec
       ELSE ExecuteBegin(<<>>, beh)

\* ToolRegistry.get_tool_definition: the cached definition if there is one;
\* otherwise a new one, which is cached, for a skill that exists and is
\* enabled; otherwise None
get_tool_definition(sk, cache, n) ==
  IF n \in DOMAIN cache THEN cache[n]
  ELSE IF get_skill(sk, n) # None /\ get_skill(sk, n).enabled
    THEN skill_to_tool_definition(n, sk[n])
    ELSE None

GetToolDefinition(n) ==
  LET tool == get_tool_definition(skills, tools_cache, n) IN
  /\ lastSkill' = [name |-> n, tool |-> tool]
  /\ tools_cache' = IF tool = None THEN tools_cache
                    ELSE [m \in DOMAIN tools_cache \cup {n} |->
                            IF m = n THEN tool ELSE tools_cache[m]]
  /\ skillOp' = "get_tool_definition"
  /\ UNCHANGED <<skills, skillFiles, lastTools>>

\* a skill document is deleted from the skills directory and the admin presses
\* the refresh button: load_all_skills, without ToolRegistry.clear_cache
SkillRemoved(n) ==
  /\ n \in DOMAIN skillFiles
  /\ skillFiles' = [m \in DOMAIN skillFiles \ {n} |-> skillFiles[m]]
  /\ skills' = load_all_skills(skillFiles')
  /\ skillOp' = "refresh"
  /\ UNCHANGED <<tools_cache, lastTools, lastSkill>>

(***************************************************************************)
(* The Telegram handlers: every command, text and photo handler is wrapped  *)
(* by admin_only, and handle_callback_query compares the ids itself before  *)
(* it dispatches on the callback data.                                      *)
(***************************************************************************)
\* bound: the updates of a behaviour
MaxAuthUpdates == 4

\* bound: the job ids a schedule request can propose
MaxAuthJobs == 1

\* config.telegram.admin_id: validate() refuses to start with 0
admin_id == 1

\* update.effective_user: the admin, somebody else, or no user at all
EffectiveUsers == {[id |-> admin_id], [id |-> admin_id + 1], None}

\* user_id = update.effective_user.id if update.effective_user else 0
user_id(update) ==
  IF update.effective_user = None THEN 0 ELSE update.effective_user.id

\* the names of the skills and providers, and the job ids, the handlers see
AuthSkills == {"weather", "notes"}
AuthProviders == {"ollama", "gemini"}
AuthJobs == 1..MaxAuthJobs

\* the commands setup_commands registers
BotCommands ==
  {"start", "help", "model", "skills", "status", "reload", "clear", "usage",
   "jobs"}

\* query.data of the inline buttons the bot sends
CallbackData ==
  {<<"model", q>> : q \in AuthProviders}
    \cup {<<"skill", "toggle", n>> : n \in AuthSkills}
    \cup {<<"skill", "enable_all">>, <<"skill", "disable_all">>}
    \cup {<<"usage", "today">>}
    \cup {<<"scheduler", a, id>> :
            a \in {"confirm", "cancel", "toggle", "delete"}, id \in AuthJobs}

\* the updates the application dispatches to a handler
Updates ==
  [kind : {"text", "photo"}, effective_user : EffectiveUsers, data : {<<>>}]
    \cup [kind : {"command"}, effective_user : EffectiveUsers,
          data : {<<c>> : c \in BotCommands}]
    \cup [kind : {"callback"}, effective_user : EffectiveUsers,
          data : CallbackData]

\* a wrapper that takes an update without a user for the admin's
admin_only_or_anonymous(update) == user_id(update) \in {admin_id, 0}

\* the check of the admin_only wrapper: the wrapped handler runs iff it holds
admin_only(update) == user_id(update) = admin_id

\* the check handle_callback_query makes after query.answer()
callback_is_admin(update) == user_id(update) = admin_id

\* process_message, as far as the state below goes: the provider is called,
\* it may ask for a skill (tool) and may propose a job (sched), and the
\* exchange is appended to the conversation
process_message(b, tool, sched) ==
  [b EXCEPT !.providerCalls = @ + 1,
            !.executions = IF tool THEN @ + 1 ELSE @,
            !.conversation = @ + 1,
            !.pendingJobs = @ \cup sched]

\* the command handlers: /clear empties the conversation, /reload loads the
\* skill documents again (which are enabled as written), the others only reply
command_handler(b, c) ==
  CASE c = "clear" -> [b EXCEPT !.conversation = 0]
    [] c = "reload" -> [b EXCEPT !.enabled = AuthSkills]
    [] OTHER -> b

\* handle_model_callback: provider_manager.switch(provider_name)
handle_model_callback(b, data) == [b EXCEPT !.active = data[2]]

\* handle_skill_callback
handle_skill_callback(b, data) ==
  CASE data[2] = "toggle" ->
         [b EXCEPT !.enabled = IF data[3] \in @ THEN @ \ {data[3]}
                                ELSE @ \cup {data[3]}]
    [] data[2] = "enable_all" -> [b EXCEPT !.enabled = AuthSkills]
    [] data[2] = "disable_all" -> [b EXCEPT !.enabled = {}]
    [] OTHER -> b

\* handle_scheduler_callback: confirm_job, cancel_pending, toggle_job,
\* delete_job on the id of the button
handle_scheduler_callback(b, data) ==
  LET id == data[3] IN
  CASE data[2] = "confirm" /\ id \in b.pendingJobs ->
         [b EXCEPT !.pendingJobs = @ \ {id}, !.storedJobs = @ \cup {id},
                   !.registered = @ \cup {id}]
    [] data[2] = "cancel" -> [b EXCEPT !.pendingJobs = @ \ {id}]
    [] data[2] = "toggle" /\ id \in b.storedJobs ->
         [b EXCEPT !.registered = IF id \in @ THEN @ \ {id} ELSE @ \cup {id}]
    [] data[2] = "delete" ->
         [b EXCEPT !.storedJobs = @ \ {id}, !.registered = @ \ {id}]
    [] OTHER -> b

\* handle_callback_query past its check: the dispatch on the data's prefix
callback_dispatch(b, data) ==
  CASE data[1] = "model" -> handle_model_callback(b, data)
    [] data[1] = "skill" -> handle_skill_callback(b, data)
    [] data[1] = "scheduler" -> handle_scheduler_callback(b, data)
    [] OTHER -> b

\* handle_message and handle_photo, wrapped by admin_only
HandleMessage(update) ==
  /\ update.kind \in {"text", "photo"}
  /\ updatesSeen < MaxAuthUpdates
  /\ updatesSeen' = updatesSeen + 1
  /\ lastUpdate' = [update |-> update, answered |-> FALSE]
  /\ IF admin_only(update)
       THEN \E tool \in BOOLEAN, sched \in {{}} \cup {{id} : id \in AuthJobs} :
              bot' = process_message(bot, tool, sched)
       ELSE bot' = bot

\* a command handler, wrapped by admin_only
HandleCommand(update) ==
  /\ update.kind = "command"
  /\ updatesSeen < MaxAuthUpdates
  /\ updatesSeen' = updatesSeen + 1
  /\ lastUpdate' = [update |-> update, answered |-> FALSE]
  /\ bot' = IF admin_only(update) THEN command_handler(bot, update.data[1])
            ELSE bot

\* handle_callback_query: the query is answered, then the ids are compared
HandleCallbackQuery(update) ==
  /\ update.kind = "callback"
  /\ updatesSeen < MaxAuthUpdates
  /\ updatesSeen' = updatesSeen + 1
  /\ lastUpdate' = [update |-> update, answered |-> TRUE]
  /\ bot' = IF callback_is_admin(update)
              THEN callback_dispatch(bot, update.data)
              ELSE bot

(***************************************************************************)
(* Specifications.                                                         *)
(***************************************************************************)
vars == <<varsSkills, varsExec, varsSched, varsLoop, varsOther>>

\* load_all_skills() at start-up has parsed every document; nothing is cached yet
StartSkills ==
  /\ skillFiles = [n \in SkillNames |-> 1]
  /\ skills = load_all_skills(skillFiles)
  /\ tools_cache = <<>>
  /\ lastTools = <<>>
  /\ lastSkill = None
  /\ skillOp = "load_all_skills"

\* SkillExecutor.__init__
StartExec ==
  /\ installed = {}
  /\ execCalls = 0
  /\ futures = <<>>
  /\ queue = <<>>
  /\ worker = 0
  /\ execPc = "idle"
  /\ execResult = None
  /\ inTime = TRUE

\* Scheduler.__init__: no job stored, nothing pending, an empty job queue
StartSched ==
  /\ jobs = <<>>
  /\ jobFile = <<>>
  /\ pending = <<>>
  /\ triggers = EmptyBag
  /\ due = EmptyBag
  /\ now = [day |-> 0, tod |-> 1]
  /\ started = FALSE
  /\ nextId = 1
  /\ schedOp = [op |-> "init", id |-> 0, ret |-> None, found |-> None]
  /\ resolved = <<>>
  /\ togSnap = None

\* no message is being handled; user_data is empty; the history file is absent
StartLoop ==
  /\ pc = "idle"
  /\ iterations = 0
  /\ remaining = 0
  /\ run = [NewRun EXCEPT !.outcome = "none"]
  /\ conv = <<>>
  /\ hasConv = FALSE
  /\ disk = <<>>
  /\ fullHistory = <<>>
  /\ appended = 0
  /\ toolResults = NoResults
  /\ late = FALSE

\* no job has fired
StartJob ==
  /\ jobPc = "idle"
  /\ jobRun = [NewJobRun EXCEPT !.outcome = "none"]

\* no update has arrived
StartUpdates ==
  /\ updateQueue = 0
  /\ runs = <<>>

\* no run of the graph yet
StartTeach ==
  /\ teachPc = "END"
  /\ teach = [pending |-> NoPending, generated |-> FALSE, tested |-> NoPending,
              next_action |-> "none", saved |-> NoPending, indexed |-> FALSE]

\* one of the files, holding a complete document of an earlier run
StartFile ==
  /\ fileOnDisk \in {[which |-> f, records |-> d, whole |-> TRUE] :
                       f \in Files, d \in Documents}
  /\ writer = [pc |-> "idle", prev |-> fileOnDisk.records, new |-> fileOnDisk.records,
               loaded |-> None]

\* the file as the other components' specifications see it
QuietFile ==
  /\ fileOnDisk = [which |-> "jobs", records |-> <<>>, whole |-> TRUE]
  /\ writer = [pc |-> "idle", prev |-> <<>>, new |-> <<>>, loaded |-> None]

\* SkillParser.__init__ over an empty skills directory
StartParser ==
  /\ docs = <<>>
  /\ parsedSkills = <<>>
  /\ parserOp = [op |-> "init", name |-> 0, ret |-> None]

\* ToolRegistry.__init__ over a SkillParser that holds no skill
StartRegistry ==
  /\ sources = <<>>
  /\ defCache = <<>>
  /\ defsOut = None

\* no skill has been executed: the streams are the interpreter's
StartSandbox ==
  /\ sysStdout = Original
  /\ execs = <<>>

\* the bot has started and no update has been dispatched
StartAuth ==
  /\ bot = [providerCalls |-> 0, executions |-> 0, conversation |-> 0,
            enabled |-> AuthSkills, active |-> "ollama", pendingJobs |-> {},
            storedJobs |-> {}, registered |-> {}]
  /\ lastUpdate = None
  /\ updatesSeen = 0

StartOther ==
  StartJob /\ StartUpdates /\ StartTeach /\ QuietFile /\ StartParser /\ StartRegistry /\ StartSandbox /\ StartAuth

Init == StartSkills /\ StartExec /\ StartSched /\ StartLoop /\ StartOther

\* JobStore._load: the job store file holds no job, or a job of an earlier run
StoredJobs ==
  {<<>>} \cup
  {(1 :> [to_scheduled_job(p, -1) EXCEPT !.enabled = e, !.last_run = r]) :
     p \in Payloads, e \in BOOLEAN, r \in {None, [day |-> -1]}}

\* the bot is constructed at some time of the day
InitSched ==
  /\ StartSkills
  /\ StartOther
  /\ StartExec
  /\ StartLoop
  /\ jobs \in StoredJobs
  /\ jobFile = store_save(jobs)
  /\ pending = <<>>
  /\ triggers = EmptyBag
  /\ due = EmptyBag
  /\ now \in {[day |-> 0, tod |-> t] : t \in DOMAIN Instants}
  /\ started = FALSE
  /\ nextId = Cardinality(DOMAIN jobs) + 1
  /\ schedOp = [op |-> "init", id |-> 0, ret |-> None, found |-> None]
  /\ resolved = <<>>
  /\ togSnap = None

NextSched ==
  \/ Start /\ UNCHANGED <<varsSkills, varsExec, varsLoop, varsOther>>
  \/ \E p \in Payloads : AddPending(p) /\ UNCHANGED <<varsSkills, varsExec, varsLoop, varsOther>>
  \/ \E id \in 1..MaxIds : ConfirmJob(id) /\ UNCHANGED <<varsSkills, varsExec, varsLoop, varsOther>>
  \/ \E id \in 1..MaxIds : CancelPending(id) /\ UNCHANGED <<varsSkills, varsExec, varsLoop, varsOther>>
  \/ \E id \in 1..MaxIds : ToggleJob(id) /\ UNCHANGED <<varsSkills, varsExec, varsLoop, varsOther>>
  \/ \E id \in 1..MaxIds : DeleteJob(id) /\ UNCHANGED <<varsSkills, varsExec, varsLoop, varsOther>>
  \/ \E trig \in DOMAIN triggers, cb \in Callbacks :
       JobTrigger(trig, cb) /\ UNCHANGED <<varsSkills, varsExec, varsLoop, varsOther>>
  \/ Tick /\ UNCHANGED <<varsSkills, varsExec, varsLoop, varsOther>>

SpecSched == InitSched /\ [][NextSched]_vars

\* ---- the Skill Store and the Tool Registry under the admin's skill actions
\* the bot runs: a job of an earlier run is stored and registered; the history
\* file is absent or holds the pair of an earlier run
InitLoop ==
  /\ StartSkills
  /\ StartOther
  /\ StartExec
  /\ LET job == to_scheduled_job(ConfirmPayload, -1) IN
       /\ jobs = (1 :> job)
       /\ now = [day |-> 0, tod |-> 1]
       /\ triggers = register_job(EmptyBag, job, 1, now).triggers
  /\ jobFile = store_save(jobs)
  /\ pending = <<>>
  /\ due = EmptyBag
  /\ started = TRUE
  /\ nextId = 2
  /\ schedOp = [op |-> "start", id |-> 0, ret |-> None, found |-> None]
  /\ resolved = <<>>
  /\ togSnap = None
  /\ pc = "idle"
  /\ iterations = 0
  /\ remaining = 0
  /\ run = [NewRun EXCEPT !.outcome = "none"]
  /\ conv = <<>>
  /\ hasConv = FALSE
  /\ disk \in {<<>>, Pair(0)}
  /\ fullHistory = disk
  /\ appended = 0
  /\ toolResults = NoResults
  /\ late = FALSE

NextLoop ==
  \/ Receive /\ UNCHANGED <<varsExec, varsSched, varsOther>>
  \/ \E resp \in Responses : ProviderReturns(resp) /\ UNCHANGED <<varsSkills, varsExec, varsSched, varsOther>>
  \/ ProviderRaises /\ UNCHANGED <<varsSkills, varsExec, varsSched, varsOther>>
  \/ ToolNotFound /\ UNCHANGED <<varsSkills, varsExec, varsOther>>
  \/ \E out \in ExecOutcomes, id \in 1..MaxIds :
       ExecuteToolCall(out, id) /\ UNCHANGED <<varsSkills, varsExec, varsOther>>
  \/ SendFinal /\ UNCHANGED <<varsSkills, varsExec, varsSched, varsOther>>
  \/ SendMax /\ UNCHANGED <<varsSkills, varsExec, varsSched, varsOther>>
  \/ Timeout /\ UNCHANGED <<varsSkills, varsExec, varsSched, varsOther>>
  \/ DeadlineWhileBlocked /\ UNCHANGED <<varsSkills, varsExec, varsSched, varsOther>>

SpecLoop == InitLoop /\ [][NextLoop]_vars

NextSkills ==
  \/ \E n \in SkillNames : SkillToggle(n) /\ UNCHANGED <<varsExec, varsSched, varsLoop, varsOther>>
  \/ SkillEnableAll /\ UNCHANGED <<varsExec, varsSched, varsLoop, varsOther>>
  \/ SkillDisableAll /\ UNCHANGED <<varsExec, varsSched, varsLoop, varsOther>>
  \/ get_all_tool_definitions /\ UNCHANGED <<varsExec, varsSched, varsLoop, varsOther>>
  \/ \E n \in SkillNames : GetSkill(n) /\ UNCHANGED <<varsExec, varsSched, varsLoop, varsOther>>

SpecSkills == Init /\ [][NextSkills]_vars

\* ---- the Skill Store and the Tool Registry while skill documents change
NextStore ==
  \/ \E n \in SkillNames : SkillToggle(n) /\ UNCHANGED <<varsExec, varsSched, varsLoop, varsOther>>
  \/ SkillEnableAll /\ UNCHANGED <<varsExec, varsSched, varsLoop, varsOther>>
  \/ SkillDisableAll /\ UNCHANGED <<varsExec, varsSched, varsLoop, varsOther>>
  \/ get_all_tool_definitions /\ UNCHANGED <<varsExec, varsSched, varsLoop, varsOther>>
  \/ \E n \in SkillNames, c \in Codes :
       DocumentEdited(n, c) /\ UNCHANGED <<varsExec, varsSched, varsLoop, varsOther>>
  \/ \E n \in SkillNames, c \in Codes :
       SaveSkill(n, c) /\ UNCHANGED <<varsExec, varsSched, varsLoop, varsOther>>
  \/ \E n \in SkillNames : ReloadSkill(n) /\ UNCHANGED <<varsExec, varsSched, varsLoop, varsOther>>
  \/ SkillRefresh /\ UNCHANGED <<varsExec, varsSched, varsLoop, varsOther>>
  \/ ReloadCommand /\ UNCHANGED <<varsExec, varsSched, varsLoop, varsOther>>

SpecStore == Init /\ [][NextStore]_vars

\* ---- the JobStore under every operation that changes a job
NextJobStore ==
  \/ Start /\ UNCHANGED <<varsSkills, varsExec, varsLoop, varsOther>>
  \/ AddPending(ConfirmPayload) /\ UNCHANGED <<varsSkills, varsExec, varsLoop, varsOther>>
  \/ \E id \in 1..MaxIds : ConfirmJob(id) /\ UNCHANGED <<varsSkills, varsExec, varsLoop, varsOther>>
  \/ \E id \in 1..MaxIds : ToggleJob(id) /\ UNCHANGED <<varsSkills, varsExec, varsLoop, varsOther>>
  \/ \E id \in 1..MaxIds : DeleteJob(id) /\ UNCHANGED <<varsSkills, varsExec, varsLoop, varsOther>>
  \/ \E trig \in DOMAIN triggers, cb \in Callbacks :
       JobTrigger(trig, cb) /\ UNCHANGED <<varsSkills, varsExec, varsLoop, varsOther>>
  \/ \E id \in 1..MaxIds, e \in BOOLEAN :
       StoreUpdate(id, e) /\ UNCHANGED <<varsSkills, varsExec, varsLoop, varsOther>>

SpecJobStore == InitSched /\ [][NextJobStore]_vars

\* ---- the cron-to-trigger mapping: one stored job with any cron of a set of
\* expressions, the bot started on any day of the week
CronMinutes == {Star, Step(15), Step(0), Lit(0), Word}
CronHours == {Star, Step(2), Lit(9)}
CronDays == {Star, Lit(1)}
CronMonths == {Star, Lit(6)}
CronWeekdays == {Star, Lit(0), Rng(1, 5), Lst(<<1, 3>>), Word}

\* the expressions of five fields, and one of four
CronDomain ==
  {<<mi, h, d, mo, w>> : mi \in CronMinutes, h \in CronHours, d \in CronDays,
                         mo \in CronMonths, w \in CronWeekdays}
  \cup {<<Lit(0), Lit(9), Star, Star>>}

\* the days of a week, day 0 a Monday
WeekDays == 0..6

InitCron ==
  /\ StartSkills
  /\ StartOther
  /\ StartExec
  /\ StartLoop
  /\ \E c \in CronDomain :
       jobs = (1 :> to_scheduled_job([task |-> <<"task", c>>, cron |-> c,
                                      description |-> <<"description", c>>], -1))
  /\ jobFile = store_save(jobs)
  /\ pending = <<>>
  /\ triggers = EmptyBag
  /\ due = EmptyBag
  /\ now \in {[day |-> d, tod |-> t] : d \in WeekDays, t \in DOMAIN Instants}
  /\ started = FALSE
  /\ nextId = 2
  /\ schedOp = [op |-> "init", id |-> 0, ret |-> None, found |-> None]
  /\ resolved = <<>>
  /\ togSnap = None

NextCron ==
  \/ Start /\ UNCHANGED <<varsSkills, varsExec, varsLoop, varsOther>>
  \/ \E id \in 1..MaxIds : ToggleJob(id) /\ UNCHANGED <<varsSkills, varsExec, varsLoop, varsOther>>
  \/ \E trig \in DOMAIN triggers, cb \in Callbacks :
       JobTrigger(trig, cb) /\ UNCHANGED <<varsSkills, varsExec, varsLoop, varsOther>>
  \/ Tick /\ UNCHANGED <<varsSkills, varsExec, varsLoop, varsOther>>

SpecCron == InitCron /\ [][NextCron]_vars

\* ---- one SkillExecutor under a sequence of execute() calls
NextExec ==
  \/ \E deps \in DepLists, beh \in Behs : ExecuteBegin(deps, beh) /\ UNCHANGED <<varsSkills, varsSched, varsLoop, varsOther>>
  \/ WorkerStart /\ UNCHANGED <<varsSkills, varsSched, varsLoop, varsOther>>
  \/ WorkerFinish /\ UNCHANGED <<varsSkills, varsSched, varsLoop, varsOther>>
  \/ ExecuteReturn /\ UNCHANGED <<varsSkills, varsSched, varsLoop, varsOther>>
  \/ ExecuteTimeout /\ UNCHANGED <<varsSkills, varsSched, varsLoop, varsOther>>

SpecExec == Init /\ [][NextExec]_vars

\* the clock advances and the worker thread runs: a step that stays enabled is taken
SpecExecLive ==
  SpecExec /\ WF_vars(NextExec /\ execPc = "waiting")

\* ---- fired jobs, one after the other
NextJob ==
  \/ JobFires /\ UNCHANGED <<varsSkills, varsExec, varsSched, varsLoop, varsUpdates, varsTeach, varsFile, varsParser, varsRegistry, varsSandbox, varsAuth>>
  \/ \E resp \in JobResponses :
       JobProviderReturns(resp) /\ UNCHANGED <<varsSkills, varsExec, varsSched, varsLoop, varsUpdates, varsTeach, varsFile, varsParser, varsRegistry, varsSandbox, varsAuth>>
  \/ JobProviderRaises /\ UNCHANGED <<varsSkills, varsExec, varsSched, varsLoop, varsUpdates, varsTeach, varsFile, varsParser, varsRegistry, varsSandbox, varsAuth>>
  \/ JobToolCall /\ UNCHANGED <<varsSkills, varsExec, varsSched, varsLoop, varsUpdates, varsTeach, varsFile, varsParser, varsRegistry, varsSandbox, varsAuth>>
  \/ JobSend /\ UNCHANGED <<varsSkills, varsExec, varsSched, varsLoop, varsUpdates, varsTeach, varsFile, varsParser, varsRegistry, varsSandbox, varsAuth>>

SpecJob == Init /\ [][NextJob]_vars

\* ---- the admin's messages and their runs
NextUpdates ==
  \/ MessageArrives /\ UNCHANGED <<varsSkills, varsExec, varsSched, varsLoop, varsJob, varsTeach, varsFile, varsParser, varsRegistry, varsSandbox, varsAuth>>
  \/ Dispatch /\ UNCHANGED <<varsSkills, varsExec, varsSched, varsLoop, varsJob, varsTeach, varsFile, varsParser, varsRegistry, varsSandbox, varsAuth>>
  \/ \E i \in 1..MaxUpdates, to \in {"provider", "tools"} \cup RunEndings :
       RunStep(i, to) /\ UNCHANGED <<varsSkills, varsExec, varsSched, varsLoop, varsJob, varsTeach, varsFile, varsParser, varsRegistry, varsSandbox, varsAuth>>
  \/ \E i \in 1..MaxUpdates, how \in RunEndings :
       RunAborts(i, how) /\ UNCHANGED <<varsSkills, varsExec, varsSched, varsLoop, varsJob, varsTeach, varsFile, varsParser, varsRegistry, varsSandbox, varsAuth>>

SpecUpdates == Init /\ [][NextUpdates]_vars

\* ---- runs of the teaching flow, one after the other
NextTeach ==
  \/ \E carried \in BOOLEAN, route \in {"generate", "continue", "cancel"} :
       TeachRun(carried, route)
         /\ UNCHANGED <<varsSkills, varsExec, varsSched, varsLoop, varsJob, varsUpdates, varsFile, varsParser, varsRegistry, varsSandbox, varsAuth>>
  \/ \E gen \in Generations :
       GenerateSkill(gen)
         /\ UNCHANGED <<varsSkills, varsExec, varsSched, varsLoop, varsJob, varsUpdates, varsFile, varsParser, varsRegistry, varsSandbox, varsAuth>>
  \/ \E success \in BOOLEAN :
       TestSkill(success)
         /\ UNCHANGED <<varsSkills, varsExec, varsSched, varsLoop, varsJob, varsUpdates, varsFile, varsParser, varsRegistry, varsSandbox, varsAuth>>
  \/ \E n \in SkillNames, index_ok \in BOOLEAN :
       TeachSave(n, index_ok)
         /\ UNCHANGED <<varsExec, varsSched, varsLoop, varsJob, varsUpdates, varsFile, varsParser, varsRegistry, varsSandbox, varsAuth>>

SpecTeach == Init /\ [][NextTeach]_vars

\* ---- writes of one persisted file, and stops of the process
InitFile ==
  /\ StartSkills /\ StartExec /\ StartSched /\ StartLoop
  /\ StartJob /\ StartUpdates /\ StartTeach /\ StartParser /\ StartRegistry /\ StartSandbox /\ StartAuth
  /\ StartFile

NextFile ==
  \/ \E which \in Files, new \in Documents :
       WriteBegin(which, new)
         /\ UNCHANGED <<varsSkills, varsExec, varsSched, varsLoop, varsJob, varsUpdates, varsTeach, varsParser, varsRegistry, varsSandbox, varsAuth>>
  \/ WriteMore
       /\ UNCHANGED <<varsSkills, varsExec, varsSched, varsLoop, varsJob, varsUpdates, varsTeach, varsParser, varsRegistry, varsSandbox, varsAuth>>
  \/ ProcessStops
       /\ UNCHANGED <<varsSkills, varsExec, varsSched, varsLoop, varsJob, varsUpdates, varsTeach, varsParser, varsRegistry, varsSandbox, varsAuth>>
  \/ LoadAfterRestart
       /\ UNCHANGED <<varsSkills, varsExec, varsSched, varsLoop, varsJob, varsUpdates, varsTeach, varsParser, varsRegistry, varsSandbox, varsAuth>>

SpecFile == InitFile /\ [][NextFile]_vars

\* ---- the SkillParser over a directory of documents of the pool
InitParser ==
  /\ StartSkills /\ StartExec /\ StartSched /\ StartLoop
  /\ StartJob /\ StartUpdates /\ StartTeach /\ QuietFile /\ StartRegistry /\ StartSandbox /\ StartAuth
  /\ docs \in [DocNames -> SkillDocuments]
  /\ parsedSkills = <<>>
  /\ parserOp = [op |-> "init", name |-> 0, ret |-> None]

NextParser ==
  \/ LoadAllSkills
       /\ UNCHANGED <<varsSkills, varsExec, varsSched, varsLoop, varsJob, varsUpdates, varsTeach, varsFile, varsRegistry, varsSandbox, varsAuth>>
  \/ \E n \in DocNames :
       ReloadOne(n)
         /\ UNCHANGED <<varsSkills, varsExec, varsSched, varsLoop, varsJob, varsUpdates, varsTeach, varsFile, varsRegistry, varsSandbox, varsAuth>>
  \/ \E n \in DocNames :
       SaveParsed(n)
         /\ UNCHANGED <<varsSkills, varsExec, varsSched, varsLoop, varsJob, varsUpdates, varsTeach, varsFile, varsRegistry, varsSandbox, varsAuth>>

SpecParser == InitParser /\ [][NextParser]_vars

\* ---- the ToolRegistry over the skills the parser holds
\* every skill is enabled when it is loaded (Skill.enabled defaults to True)
InitRegistry ==
  /\ StartSkills /\ StartExec /\ StartSched /\ StartLoop
  /\ StartJob /\ StartUpdates /\ StartTeach /\ QuietFile /\ StartParser /\ StartSandbox /\ StartAuth
  /\ sources \in [SourceNames -> {[enabled |-> TRUE, code |-> c] : c \in SkillSources}]
  /\ defCache = <<>>
  /\ defsOut = None

NextRegistry ==
  \/ GetAllToolDefinitions
       /\ UNCHANGED <<varsSkills, varsExec, varsSched, varsLoop, varsJob, varsUpdates, varsTeach, varsFile, varsParser, varsSandbox, varsAuth>>
  \/ ClearCache
       /\ UNCHANGED <<varsSkills, varsExec, varsSched, varsLoop, varsJob, varsUpdates, varsTeach, varsFile, varsParser, varsSandbox, varsAuth>>
  \/ \E n \in SourceNames :
       SetEnabled(n)
         /\ UNCHANGED <<varsSkills, varsExec, varsSched, varsLoop, varsJob, varsUpdates, varsTeach, varsFile, varsParser, varsSandbox, varsAuth>>

SpecRegistry == InitRegistry /\ [][NextRegistry]_vars

\* ---- the sandbox and the streams under executions of several executors
NextSandbox ==
  \/ \E names \in SourceBuiltins :
       SandboxBegin(names)
         /\ UNCHANGED <<varsSkills, varsExec, varsSched, varsLoop, varsJob, varsUpdates, varsTeach, varsFile, varsParser, varsRegistry, varsAuth>>
  \/ \E i \in 1..MaxSandboxRuns :
       SandboxPrint(i)
         /\ UNCHANGED <<varsSkills, varsExec, varsSched, varsLoop, varsJob, varsUpdates, varsTeach, varsFile, varsParser, varsRegistry, varsAuth>>
  \/ \E i \in 1..MaxSandboxRuns :
       SandboxTimeout(i)
         /\ UNCHANGED <<varsSkills, varsExec, varsSched, varsLoop, varsJob, varsUpdates, varsTeach, varsFile, varsParser, varsRegistry, varsAuth>>
  \/ \E i \in 1..MaxSandboxRuns :
       SandboxEnd(i)
         /\ UNCHANGED <<varsSkills, varsExec, varsSched, varsLoop, varsJob, varsUpdates, varsTeach, varsFile, varsParser, varsRegistry, varsAuth>>

SpecSandbox == Init /\ [][NextSandbox]_vars

\* ---- tool calls by name while the admin enables and disables skills; a
\* name outside the Skill Store is called too
NextToolCall ==
  \/ \E n \in SkillNames : SkillToggle(n) /\ UNCHANGED <<varsExec, varsSched, varsLoop, varsOther>>
  \/ \E caller \in ToolCallers, n \in 0..NumSkills, beh \in {"ok", "hang"} :
       ExecuteNamedSkill(caller, n, beh) /\ UNCHANGED <<varsSched, varsLoop, varsOther>>
  \/ WorkerStart /\ UNCHANGED <<varsSkills, varsSched, varsLoop, varsOther>>
  \/ WorkerFinish /\ UNCHANGED <<varsSkills, varsSched, varsLoop, varsOther>>
  \/ ExecuteReturn /\ UNCHANGED <<varsSkills, varsSched, varsLoop, varsOther>>
  \/ ExecuteTimeout /\ UNCHANGED <<varsSkills, varsSched, varsLoop, varsOther>>

SpecToolCall == Init /\ [][NextToolCall]_vars

\* ---- lookups of single tool definitions between toggles, reloads and
\* removals of skills
NextLookup ==
  \/ \E n \in SkillNames : SkillToggle(n) /\ UNCHANGED <<varsExec, varsSched, varsLoop, varsOther>>
  \/ get_all_tool_definitions /\ UNCHANGED <<varsExec, varsSched, varsLoop, varsOther>>
  \/ \E n \in SkillNames : GetToolDefinition(n) /\ UNCHANGED <<varsExec, varsSched, varsLoop, varsOther>>
  \/ \E n \in SkillNames : SkillRemoved(n) /\ UNCHANGED <<varsExec, varsSched, varsLoop, varsOther>>
  \/ ReloadCommand /\ UNCHANGED <<varsExec, varsSched, varsLoop, varsOther>>

SpecLookup == Init /\ [][NextLookup]_vars

\* the Telegram handlers alone
NextAuth ==
  \/ \E update \in Updates :
       HandleMessage(update)
         /\ UNCHANGED <<varsSkills, varsExec, varsSched, varsLoop, varsJob, varsUpdates, varsTeach, varsFile, varsParser, varsRegistry, varsSandbox>>
  \/ \E update \in Updates :
       HandleCommand(update)
         /\ UNCHANGED <<varsSkills, varsExec, varsSched, varsLoop, varsJob, varsUpdates, varsTeach, varsFile, varsParser, varsRegistry, varsSandbox>>
  \/ \E update \in Updates :
       HandleCallbackQuery(update)
         /\ UNCHANGED <<varsSkills, varsExec, varsSched, varsLoop, varsJob, varsUpdates, varsTeach, varsFile, varsParser, varsRegistry, varsSandbox>>

SpecAuth == Init /\ [][NextAuth]_vars

(***************************************************************************)
(* Claims.                                                                 *)
(***************************************************************************)

\* C2 (as claimed): execute() never raises; whatever the dependency step or the
\* skill's code does, the caller gets an ExecutionResult back.
C2_ExecuteNeverRaises == execPc # "raised"

\* C3: an execution whose code has not finished when the timeout passes (slow
\* code, code that never terminates, code queued behind abandoned code) returns
\* the failed result "Execution timed out", and a caller waiting in execute()
\* always gets out of it.
C3_TimeoutReturns ==
  /\ [](execPc = "returned" /\ ~inTime => execResult = TimeoutFailure)
  /\ [](execPc = "returned" /\ execCalls \in DOMAIN futures
          /\ futures[execCalls].beh \in {"slow", "hang"} => execResult = TimeoutFailure)
  /\ (execPc = "waiting" ~> execPc # "waiting")

\* C3 witness: execute() has returned the timeout failure for code that never
\* terminates and still occupies the worker thread
C3_Witness ==
  /\ execPc = "returned"
  /\ execResult = TimeoutFailure
  /\ worker = execCalls
  /\ futures[execCalls].beh = "hang"

\* the names of the definitions in a list of tool definitions, with repetitions
DefCount(defs, n) == Cardinality({i \in DOMAIN defs : defs[i].name = n})

\* C10: get_all_tool_definitions() returns exactly one definition for each
\* enabled skill of the Skill Store and none for a disabled one, while
\* get_skill(name) still returns a disabled skill.
C10_EnabledOnly ==
  /\ skillOp = "get_all_tool_definitions" =>
       /\ \A n \in DOMAIN skills :
            DefCount(lastTools, n) = IF skills[n].enabled THEN 1 ELSE 0
       /\ \A i \in DOMAIN lastTools : lastTools[i].name \in DOMAIN skills
  /\ skillOp = "get_skill" /\ lastSkill.name \in DOMAIN skills =>
       lastSkill.skill = skills[lastSkill.name]

\* C10 witness: a skill that was served and cached is disabled, and the next
\* get_all_tool_definitions() leaves it out while serving another skill
C10_Witness ==
  /\ skillOp = "get_all_tool_definitions"
  /\ \E n \in DOMAIN skills : ~skills[n].enabled /\ n \in DOMAIN tools_cache
  /\ \E n \in DOMAIN skills : skills[n].enabled
  /\ lastTools # <<>>

\* the recurring triggers (run_repeating, run_daily) registered under the job id
RecurringCount(trigs, id) ==
  BagCardinality([x \in {y \in DOMAIN trigs : y.name = Name(id)} |-> trigs[x]])

\* a cron from which _register_job derives an interval or a daily time
Interpretable(cron) ==
  LET interval == cron_to_interval_seconds(cron)
      run_time == cron_to_time(cron)
  IN \/ interval # None /\ interval.n # 0
     \/ run_time # None /\ ptb_days(parse_cron(cron).day_of_week) # Raised

\* C5: once the scheduler is started, for every job id whose cron is
\* interpretable the job queue holds exactly one recurring trigger named with
\* the id when the job is stored with enabled = true, and none otherwise; two
\* recurring triggers never coexist under one id.
C5_TriggerMatchesEnabled ==
  \A id \in 1..MaxIds :
    /\ RecurringCount(triggers, id) <= 1
    /\ (started /\ (id \in DOMAIN jobs => Interpretable(jobs[id].cron)))
         => RecurringCount(triggers, id) =
              IF id \in DOMAIN jobs /\ jobs[id].enabled THEN 1 ELSE 0

\* a job was toggled while another one is stored: one is disabled and has no
\* trigger, the other is enabled and has its trigger
C5_Witness ==
  /\ started
  /\ schedOp.op = "toggle_job"
  /\ \E i, j \in DOMAIN jobs :
       /\ Interpretable(jobs[i].cron) /\ Interpretable(jobs[j].cron)
       /\ jobs[i].enabled /\ RecurringCount(triggers, i) = 1
       /\ ~jobs[j].enabled /\ RecurringCount(triggers, j) = 0

\* C6: confirm_job on a pending job removes it from the pending storage and
\* returns a ScheduledJob with the same task, cron and description, which is
\* stored and persisted; a stored job stays in list_jobs() until delete_job.
C6_ConfirmReturnsStoredJob ==
  /\ [](schedOp.op = "confirm_job" /\ schedOp.found # None
          => /\ schedOp.id \notin DOMAIN pending
             /\ schedOp.ret # None /\ schedOp.ret # Raised
             /\ schedOp.ret.val.task = schedOp.found.task
             /\ schedOp.ret.val.cron = schedOp.found.cron
             /\ schedOp.ret.val.description = schedOp.found.description
             /\ schedOp.id \in DOMAIN jobs /\ jobs[schedOp.id] = schedOp.ret.val
             /\ schedOp.id \in DOMAIN store_load(jobFile)
             /\ store_load(jobFile)[schedOp.id] = schedOp.ret.val)
  /\ [][\A id \in DOMAIN jobs :
          id \notin DOMAIN jobs' => schedOp'.op = "delete_job" /\ schedOp'.id = id]_vars

\* C7: of the confirm_job and cancel_pending calls on one pending id only the
\* first finds the pending job; every later confirm_job returns None, every
\* later cancel_pending returns False, and at most one ScheduledJob is made
\* from one PendingJob.
C7_ResolvedAtMostOnce ==
  /\ \A id \in DOMAIN resolved : resolved[id].made <= 1
  /\ (schedOp.op \in {"confirm_job", "cancel_pending"} /\ schedOp.id \in DOMAIN resolved)
       => IF resolved[schedOp.id].calls = 1
            THEN schedOp.found # None
            ELSE /\ schedOp.found = None
                 /\ schedOp.ret = IF schedOp.op = "confirm_job" THEN None ELSE Ret(FALSE)

\* a second press: cancel_pending on an id that confirm_job has resolved
C7_Witness ==
  /\ schedOp.op = "cancel_pending"
  /\ schedOp.id \in DOMAIN resolved
  /\ resolved[schedOp.id].calls = 2
  /\ resolved[schedOp.id].how = "confirm"
  /\ resolved[schedOp.id].made = 1

\* C8: cancel_pending on a pending id returns True and only removes that
\* pending entry: store, file, triggers and the other pending entries are as
\* before, and the id is never stored as a job; on an id that is not pending
\* it returns False and changes nothing.
C8_CancelOnlyRemovesPending ==
  /\ [][schedOp'.op = "cancel_pending"
          => /\ <<jobs, jobFile, triggers, due, now, started>>' =
                  <<jobs, jobFile, triggers, due, now, started>>
             /\ IF schedOp'.id \in DOMAIN pending
                  THEN schedOp'.ret = Ret(TRUE) /\ pending' = Pop(pending, schedOp'.id)
                  ELSE schedOp'.ret = Ret(FALSE) /\ pending' = pending]_vars
  /\ [](\A id \in DOMAIN resolved : resolved[id].how = "cancel" => id \notin DOMAIN jobs)

\* a pending job was cancelled while another one is pending
C8_Witness ==
  /\ schedOp.op = "cancel_pending"
  /\ schedOp.ret = Ret(TRUE)
  /\ schedOp.id \notin DOMAIN pending
  /\ DOMAIN pending # {}

\* C9: after two toggle_job calls in a row on a stored job, the job has its
\* original enabled state and the job queue holds the triggers it held
\* before the two calls.
C9_ToggleTwiceRestores ==
  (togSnap # None /\ togSnap.count = 2)
    => /\ jobs[togSnap.id].enabled = togSnap.enabled
       /\ triggers = togSnap.triggers

\* a run of handle_with_tool_calling has ended, and neither the outer
\* wall-clock ceiling of process_message nor a failing provider call ended it
RunEnded == pc = "idle" /\ run.outcome \in {"final", "max", "fault"}

\* C1: the loop makes at most MAX_TOOL_ITERATIONS provider calls; a run in
\* which every provider response carried a tool call ends with the
\* maximum-tool-calls message after exactly MAX_TOOL_ITERATIONS provider
\* calls; a run whose provider returns no tool calls ends after exactly one
\* provider call with the text of that response as the final answer (the
\* fixed fallback standing in for an empty text).
C1_LoopTerminates ==
  /\ run.calls <= MAX_TOOL_ITERATIONS
  /\ (RunEnded /\ run.allTool)
       => /\ run.calls = MAX_TOOL_ITERATIONS
          /\ run.outcome = "max"
          /\ run.replies \ {"dialog"} = {"max"}
  /\ (RunEnded /\ run.noTool)
       => /\ run.calls = 1
          /\ run.outcome = "final"
          /\ run.answer = ResponseText(run.text)
          /\ run.replies = {"answer"}

\* the last n entries of s, by position
Suffix(s, n) ==
  LET m == IF Len(s) <= n THEN Len(s) ELSE n
  IN [i \in 1..m |-> s[Len(s) - m + i]]

C11_NoStaleDefinition ==
  skillOp \in {"get_all_tool_definitions", "reload_command"}
    => \A i \in DOMAIN lastTools :
         lastTools[i] = skill_to_tool_definition(lastTools[i].name,
                                                 skills[lastTools[i].name])

\* C12 (as claimed): after a 'SCHEDULER_DELETE:<id>' result is handled the job
\* is no longer among the stored jobs that list_jobs() returns and no trigger
\* of it is registered; after 'SCHEDULER_TOGGLE:<id>:<flag>' the stored enabled
\* flag of the job equals the flag and its trigger is registered iff the flag
\* is true.
C12_SentinelAckAgrees ==
  /\ schedOp.op = "SCHEDULER_DELETE"
       => /\ schedOp.id \notin DOMAIN jobs
          /\ \A t \in DOMAIN triggers : t.job # schedOp.id
  /\ (schedOp.op = "SCHEDULER_TOGGLE" /\ schedOp.id \in DOMAIN jobs)
       => /\ jobs[schedOp.id].enabled = schedOp.ret.val
          /\ (RecurringCount(triggers, schedOp.id) = 1) <=> schedOp.ret.val

\* C13 (as claimed): every tool invocation of a response gets exactly one tool
\* result in messages, in invocation order, before the loop goes on; the
\* result of an invocation naming an unknown skill is the not-found text, and
\* only for such an invocation no execution takes place.
C13_OneResultPerCall ==
  /\ pc = "tools" => Len(toolResults.out) + remaining = toolResults.asked
  /\ pc # "tools" => Len(toolResults.out) = toolResults.asked
  /\ \A i \in DOMAIN toolResults.out :
       toolResults.out[i].text = "not found" <=> ~toolResults.out[i].executed

\* C14 (as claimed): a run of process_message that has ended has sent the
\* user a reply: the final answer, the maximum-tool-calls message or the
\* timeout message.
C14_EveryRunReplies ==
  (pc = "idle" /\ run.outcome \notin {"none", "running"})
    => run.replies \cap {"answer", "max", "timeout"} # {}

\* a step of the tool phase in which executor.execute runs for a tool call
ExecutionStarts ==
  /\ pc = "tools"
  /\ \/ pc' = "idle"
     \/ /\ Len(toolResults'.out) = Len(toolResults.out) + 1
        /\ toolResults'.out[Len(toolResults'.out)].executed

\* C15 (as claimed): once the processing deadline has passed, no skill
\* execution of the run starts any more, and the run ends only by being
\* aborted with the timeout message.
C15_DeadlineAborts ==
  [][late => /\ ~ExecutionStarts
             /\ pc' = "idle" => run'.outcome = "timeout"]_vars

\* C16 (as claimed): a cron expression that cannot be interpreted prevents
\* only its own job's registration; start() registers every enabled job whose
\* cron is interpretable, and neither start() nor confirm_job raises.
C16_BadCronIsolated ==
  /\ schedOp.op \in {"start", "confirm_job"} => schedOp.ret # Raised
  /\ schedOp.op = "start"
       => \A id \in DOMAIN jobs :
            (jobs[id].enabled /\ Interpretable(jobs[id].cron))
              => RecurringCount(triggers, id) = 1

\* the triggers of the job queue that belong to other jobs than id
OtherTriggers(trigs, id) == [t \in {x \in DOMAIN trigs : x.job # id} |-> trigs[t]]

\* C17 (as claimed): when a trigger fires, the last run of its job is recorded
\* and persisted, no exception of the callback leaves _job_trigger, and the
\* store entries and triggers of the other jobs are unchanged.
C17_CallbackContained ==
  [][schedOp'.op = "_job_trigger"
       => /\ schedOp'.ret # Raised
          /\ schedOp'.id \in DOMAIN jobs
               => /\ jobs'[schedOp'.id].last_run = [day |-> now.day]
                  /\ jobFile' = store_save(jobs')
          /\ \A j \in DOMAIN jobs \ {schedOp'.id} : j \in DOMAIN jobs' /\ jobs'[j] = jobs[j]
          /\ OtherTriggers(triggers', schedOp'.id) = OtherTriggers(triggers, schedOp'.id)]_vars

\* the days a day-of-week field names, in cron's numbering (0 and 7 are Sunday)
DowSet(f) ==
  CASE f.k = "lit" -> {f.n % 7}
    [] f.k = "range" -> {x % 7 : x \in f.a..f.b}
    [] f.k = "list" -> {f.l[i] % 7 : i \in DOMAIN f.l}
    [] OTHER -> {}

\* cron's number of a day: Sunday is 0, Monday 1
CronDay(day) == (weekday(day) + 1) % 7

\* an expression of the daily-time form: minute and hour are numbers of a time
DailyTime(c) ==
  /\ Len(c) = 5
  /\ c[1].k = "lit" /\ c[1].n \in 0..59
  /\ c[2].k = "lit" /\ c[2].n \in 0..23

\* today is a day of the job's cron, its time has passed today, and the job
\* has recorded no run today
MissedToday(job, t) ==
  /\ job.cron[5] = Star \/ CronDay(t.day) \in DowSet(job.cron[5])
  /\ Instants[t.tod] > job.cron[2].n * 60 + job.cron[1].n
  /\ job.last_run = None \/ job.last_run.day # t.day

\* the catch-up triggers of a job in the job queue
CatchupCount(trigs, id) ==
  BagCardinality([x \in {y \in DOMAIN trigs : y.name = CatchupName(id)} |-> trigs[x]])

\* the step is a call that has registered the job id: start(), toggle_job
\* switching it on, confirm_job
Registers(id) ==
  \/ schedOp'.op = "start" /\ schedOp'.ret # Raised /\ id \in DOMAIN jobs /\ jobs[id].enabled
  \/ schedOp'.op = "toggle_job" /\ schedOp'.id = id /\ schedOp'.ret = Ret(TRUE)
  \/ /\ schedOp'.op = "confirm_job" /\ schedOp'.id = id
     /\ schedOp'.found # None /\ schedOp'.ret # Raised

\* C18: a registration of a daily-time job schedules one catch-up trigger
\* '<id>_catchup' if and only if today is a day of the job, its time has passed
\* today and the job has no run recorded today; the registration of any other
\* job schedules none, and nothing but a registration schedules one.
C18_CatchupIffMissed ==
  [][\A id \in 1..MaxIds :
       LET added == CatchupCount(triggers', id) - CatchupCount(triggers, id) IN
       IF Registers(id)
         THEN added = IF DailyTime(jobs'[id].cron) /\ MissedToday(jobs'[id], now)
                        THEN 1 ELSE 0
         ELSE added <= 0 \/ (schedOp'.op = "start" /\ schedOp'.ret = Raised)]_vars

\* a job restricted to days of the week was registered on one of its days
\* after its time: the catch-up trigger waits next to the recurring one
C18_Witness ==
  /\ schedOp.op \in {"start", "toggle_job"}
  /\ 1 \in DOMAIN jobs /\ jobs[1].enabled
  /\ DailyTime(jobs[1].cron) /\ jobs[1].cron[5] # Star
  /\ CatchupCount(triggers, 1) = 1
  /\ RecurringCount(triggers, 1) = 1

\* the recurring triggers registered under the job id
Recurring(trigs, id) == {t \in DOMAIN trigs : t.name = Name(id)}

\* C19 (as claimed): after start(), '*/N * * * *' has a repeating trigger of
\* N*60 seconds, 'M */N * * *' one of N*3600 seconds, 'M H * * *' a daily
\* trigger at H:M without day restriction, 'M H * * D' a daily trigger whose
\* days are those of D in Monday-is-0 numbering, and an expression of neither
\* form has no trigger; a daily trigger comes due on exactly the days of the
\* week its expression names ('0 9 * * 1-5' on Monday to Friday).
C19_CronMapping ==
  /\ schedOp.op = "start"
       => \A id \in DOMAIN jobs :
            jobs[id].enabled =>
              LET c == jobs[id].cron
                  rec == Recurring(triggers, id)
              IN /\ (Len(c) = 5 /\ c[1].k = "step" /\ c[1].n > 0
                       /\ \A i \in 2..5 : c[i] = Star)
                      => rec = {[name |-> Name(id), kind |-> "repeating", job |-> id,
                                 interval |-> c[1].n * 60]}
                 /\ (Len(c) = 5 /\ c[1].k = "lit" /\ c[2].k = "step" /\ c[2].n > 0
                       /\ \A i \in 3..5 : c[i] = Star)
                      => rec = {[name |-> Name(id), kind |-> "repeating", job |-> id,
                                 interval |-> c[2].n * 3600]}
                 /\ (DailyTime(c) /\ \A i \in 3..5 : c[i] = Star)
                      => rec = {[name |-> Name(id), kind |-> "daily", job |-> id,
                                 time |-> [hour |-> c[2].n, minute |-> c[1].n],
                                 days |-> None]}
                 /\ (DailyTime(c) /\ c[3] = Star /\ c[4] = Star /\ DowSet(c[5]) # {})
                      => \E t \in rec :
                           /\ rec = {t}
                           /\ t.kind = "daily"
                           /\ t.time = [hour |-> c[2].n, minute |-> c[1].n]
                           /\ t.days # None
                           /\ Range(t.days.t) = {(d + 6) % 7 : d \in DowSet(c[5])}
                 /\ ~Interpretable(c) => rec = {}
  /\ (schedOp.op = "tick" /\ now.tod > 1)
       => \A t \in DOMAIN triggers :
            (/\ t.kind = "daily"
             /\ t.job \in DOMAIN jobs
             /\ Instants[now.tod - 1] < t.time.hour * 60 + t.time.minute
             /\ t.time.hour * 60 + t.time.minute <= Instants[now.tod])
              => (BagIn(t, due) <=>
                    \/ jobs[t.job].cron[5] = Star
                    \/ CronDay(now.day) \in DowSet(jobs[t.job].cron[5]))

\* the expression with other day-of-month and month fields
WithDayMonth(c, d, m) == [c EXCEPT ![3] = d, ![4] = m]

\* what start() registers for a store js at this moment
StartResult(js) == register_all(triggers, get_enabled(js), js, now)

\* start() has done for the store what it would have done with the fields d
\* and m in the expression of job id
SameStart(id, d, m) ==
  LET r == StartResult([jobs EXCEPT ![id].cron = WithDayMonth(@, d, m)])
  IN r.triggers = triggers' /\ r.raised = (schedOp'.ret = Raised)

\* C20 (as claimed): two expressions of five fields that differ only in
\* day-of-month and month are both rejected or registered alike.
C20_DayMonthIgnored ==
  [][schedOp'.op = "start"
       => \A id \in DOMAIN jobs, d \in CronDays, m \in CronMonths :
            Len(jobs[id].cron) = 5 => SameStart(id, d, m)]_vars

\* C20 (amended): day-of-month and month are not evaluated for an expression
\* of the daily-time form; the month is not evaluated for any expression whose
\* minute is not '*'; an expression with a restricted day-of-month is never
\* registered as an interval.
C20_DayMonthIgnoredDaily ==
  /\ [][schedOp'.op = "start"
          => \A id \in DOMAIN jobs, d \in CronDays, m \in CronMonths :
               /\ DailyTime(jobs[id].cron) => SameStart(id, d, m)
               /\ (Len(jobs[id].cron) = 5 /\ jobs[id].cron[1] # Star)
                    => SameStart(id, jobs[id].cron[3], m)]_vars
  /\ [](\A id \in DOMAIN jobs :
          (Len(jobs[id].cron) = 5 /\ jobs[id].cron[3] # Star)
            => \A t \in DOMAIN triggers : t.job = id => t.kind # "repeating")

\* start() has registered the daily trigger of an expression with a
\* day-of-month and a month
C20_Witness ==
  /\ schedOp.op = "start"
  /\ 1 \in DOMAIN jobs /\ jobs[1].enabled
  /\ DailyTime(jobs[1].cron)
  /\ jobs[1].cron[3] # Star /\ jobs[1].cron[4] # Star
  /\ \E t \in Recurring(triggers, 1) : t.kind = "daily"

\* C21 (as claimed): a fired job runs the tool-calling loop of an interactive
\* message: its result is delivered only after a response without tool calls or
\* after MAX_TOOL_ITERATIONS provider calls, every tool call of the run was
\* answered by a tool result, and no scheduler sentinel reached the model as an
\* ordinary result.
C21_JobRunsToolLoop ==
  jobRun.outcome = "delivered" =>
    /\ jobRun.lastTools = 0 \/ jobRun.calls = MAX_TOOL_ITERATIONS
    /\ jobRun.fed = jobRun.asked
    /\ jobRun.leaked = 0

\* C22: no two runs of the admin's messages interleave: whenever a run has
\* started, every run started before it has ended (final answer, round limit,
\* timeout, or an exception), so at most one run is at work at any time.
C22_RunsDoNotInterleave ==
  \A i, j \in DOMAIN runs : i < j => runs[i] \in RunEndings

\* a second run is at work after the first one ended by the timeout
C22_Witness ==
  /\ Len(runs) >= 2
  /\ runs[1] = "timeout"
  /\ runs[2] = "tools"
  /\ updateQueue > 0

\* C23 (as claimed): in a run of the teaching flow the Skill Store is written
\* only with the code that this run generated and that passed this run's test,
\* while save_skill is reached only after a successful test of the pending
\* code; when generation yields no code, or the test fails, nothing is written.
C23_SavedOnlyAfterTest ==
  /\ teachPc = "save_skill" => teach.tested = teach.pending /\ teach.pending # NoPending
  /\ teach.saved # NoPending => teach.generated /\ teach.tested = teach.saved

\* C24: the job store file is rewritten in full on every mutation: at every
\* moment a JobStore loaded from the file equals the in-memory store, whatever
\* was added, removed, toggled or marked as run; and an operation that finds no
\* job of the given id leaves the store and the file as they are.
C24_FileMirrorsStore ==
  /\ [](store_load(jobFile) = jobs)
  /\ [][(schedOp'.op \in {"toggle_job", "delete_job", "_job_trigger", "update"}
          /\ schedOp'.id \notin DOMAIN jobs)
        => jobs' = jobs /\ jobFile' = jobFile]_vars

\* a stored job has just been marked as run beside another job, and the file
\* holds both with the new last_run
C24_Witness ==
  /\ schedOp.op = "_job_trigger"
  /\ schedOp.id \in DOMAIN jobs
  /\ jobs[schedOp.id].last_run = [day |-> now.day]
  /\ Cardinality(DOMAIN jobs) = 2
  /\ Len(jobFile) = 2
  /\ \E i \in DOMAIN jobFile :
       jobFile[i].id = schedOp.id /\ jobFile[i].last_run = [day |-> now.day]

\* C25 (as claimed): a write has write-then-replace semantics: whenever the
\* process stops, the file is a complete document holding either the content
\* before the write or the content being written, and what the next start
\* loads is one of the two.
C25_WriteThenReplace ==
  /\ writer.pc = "stopped"
       => fileOnDisk.whole /\ fileOnDisk.records \in {writer.prev, writer.new}
  /\ writer.loaded # None => writer.loaded \in {writer.prev, writer.new}

\* the entry function is defined at the top level of a source
DefinesExecute(code) == "def execute():" \in Range(code)

\* C26: every skill the parser holds as valid defines the entry function
\* execute: a source without it is rejected when the document is parsed, so it
\* never reaches the cache from which the callable tools are built.
C26_ValidSkillDefinesExecute ==
  \A n \in DOMAIN parsedSkills : DefinesExecute(parsedSkills[n].code)

\* a document frontmatter can read that holds a code block with a line of code:
\* an opening fence, later a line with a fence, and between them lines of which
\* the first ones up to that fence are not all blank
HasCode(doc) ==
  /\ doc.readable
  /\ \E i, k \in DOMAIN doc.lines :
       /\ i < k
       /\ doc.lines[i] = Fence
       /\ \A h \in 1..(i - 1) : doc.lines[h] # Fence
       /\ HasFence(doc.lines[k])
       /\ \E j \in (i + 1)..(k - 1) :
            /\ doc.lines[j] # Blank
            /\ \A m \in (i + 1)..j : ~HasFence(doc.lines[m])

\* C27: after load_all_skills the cache holds exactly the documents of the
\* directory that can be read and hold a code block with code: a document
\* without one, or one whose parsing fails, is left out, and every other
\* document is loaded whichever documents stand next to it.
C27_LoadSkipsInvalidKeepsValid ==
  parserOp.op = "load_all_skills" =>
    /\ DOMAIN parsedSkills = {n \in DOMAIN docs : HasCode(docs[n])}
    /\ parserOp.ret = DOMAIN parsedSkills
    /\ \A n \in DOMAIN parsedSkills : parsedSkills[n].code # <<>>

\* a load that met a document that cannot be read, and one without code, or
\* kept a valid document next to an invalid one
C27_Witness ==
  /\ parserOp.op = "load_all_skills"
  /\ DOMAIN parsedSkills = {2}
  /\ docs[1].readable
  /\ docs[1].lines = <<HCode, Fence, FenceEnd>>

\* C28: a skill that parse_file returned, written by save_skill and parsed
\* again, has the same description, dependencies and code.
C28_SaveThenParseRoundTrip ==
  parserOp.op = "save_skill" => parse_file(docs[parserOp.name]) = parserOp.ret


\* the parameters the entry function declares, an implicit first self aside
declared(code) ==
  IF code.params # <<>> /\ code.params[1].name = "self"
  THEN Tail(code.params) ELSE code.params

\* C29: the ToolDefinition derived from a source that parses has a property
\* for each parameter of the entry function (an implicit first self aside),
\* N + M in all, and its required list holds exactly the N names without a
\* declared default.
C29_RequiredIffNoDefault ==
  defsOut # None =>
    \A n \in DOMAIN defsOut :
      sources[n].code.parses =>
        LET ps == declared(sources[n].code) IN
        /\ Range(defsOut[n].required) = {ps[i].name : i \in {j \in DOMAIN ps : ~ps[j].default}}
        /\ Len(defsOut[n].required) = Cardinality({j \in DOMAIN ps : ~ps[j].default})
        /\ defsOut[n].properties = {ps[i].name : i \in DOMAIN ps}
        /\ Cardinality(defsOut[n].properties) = Len(ps)

\* C30: a skill whose source cannot be parsed is not in the list that
\* get_all_tool_definitions returns and has no cached definition, and every
\* other enabled skill is in the list.
C30_UnparsableSkipped ==
  defsOut # None =>
    \A n \in DOMAIN sources :
      /\ ~sources[n].code.parses => n \notin DOMAIN defsOut /\ n \notin DOMAIN defCache
      /\ (sources[n].code.parses /\ sources[n].enabled) => n \in DOMAIN defsOut


\* C31: in every execution the built-ins the skill's source reaches by name
\* are in the allow-list SAFE_BUILTINS; open, eval and exec are not reachable.
C31_OnlySafeBuiltins ==
  \A i \in DOMAIN execs : execs[i].resolved \subseteq SAFE_BUILTINS

\* C35: once every execution has finished, sys.stdout is the original stream,
\* and the stdout of every ExecutionResult holds only what the skill of that
\* execution wrote.
C35_CaptureIsolatedAndUndone ==
  /\ RunningExecs = {} => sysStdout = Original
  /\ \A i \in DOMAIN execs :
       execs[i].stdout # None => execs[i].stdout.text \subseteq {i}


\* the step is a run of _job_trigger for a catch-up trigger of job id
CatchupFires(id) ==
  /\ schedOp'.op = "_job_trigger"
  /\ schedOp'.id = id
  /\ CatchupCount(triggers', id) < CatchupCount(triggers, id)

\* C32: a job runs as a catch-up at most once a day: whenever a catch-up
\* trigger of a job fires, the job has not run that day yet (every firing
\* records the day in last_run), whatever registrations came before.
C32_CatchupOncePerDay ==
  [][\A id \in 1..MaxIds :
       (CatchupFires(id) /\ id \in DOMAIN jobs)
         => (jobs[id].last_run = None \/ jobs[id].last_run.day # now.day)]_vars


\* the triggers of the job queue that carry job id, recurring or catch-up
TriggersOf(trigs, id) == {x \in DOMAIN trigs : x.job = id}

\* C33: once delete_job(id) has returned, or toggle_job(id) has disabled the
\* job, no trigger that carries the job is left in the job queue, and
\* _job_trigger runs only for a job that is stored and enabled.
C33_NoRunAfterDeleteOrDisable ==
  /\ [](\A id \in 1..MaxIds :
          (id \notin DOMAIN jobs \/ ~jobs[id].enabled) => TriggersOf(triggers, id) = {})
  /\ [][schedOp'.op = "_job_trigger"
          => (schedOp'.id \in DOMAIN jobs /\ jobs[schedOp'.id].enabled)]_vars


\* C34: a call of execute() for a skill that completes at once returns
\* success, also when an earlier call on the same SkillExecutor has timed out
\* and its code still runs in the worker thread.
C34_TimeoutLeavesExecutorUsable ==
  [][(execPc = "waiting" /\ futures[CurCall].beh = "ok" /\ execPc' = "returned")
       => execResult' = SuccessResult]_vars


\* C36: the code of a disabled skill is never run: whenever a tool call leads
\* to executor.execute, in the interactive loop or in a scheduled-job run, the
\* skill it names is enabled.
C36_DisabledSkillNotExecuted ==
  [][(skillOp' = "execute_tool_call" /\ execCalls' = execCalls + 1)
       => lastSkill'.skill.enabled]_vars


\* C37: a run that ended with the maximum-tool-calls reply or with the timeout
\* reply has added nothing to the conversation in memory and on disk: the
\* pair of a message is added in the step that sets the answer of the run, so
\* such a run has no answer; and a run that has added the pair ends by
\* delivering it.
C37_AbortLeavesConversation ==
  /\ (pc = "idle" /\ run.outcome \in {"max", "timeout"}) => run.answer = "none"
  /\ (pc = "idle" /\ run.outcome # "none" /\ run.answer # "none")
       => run.outcome = "final"


\* C38: a disabled skill becomes enabled only by the admin's enable actions
\* (the toggle button and "enable all"): no reload, refresh or save turns the
\* flag on, so a disabled skill does not come back into the tool definitions.
C38_DisabledUntilEnabled ==
  [][\A n \in SkillNames :
       (~skills[n].enabled /\ skills'[n].enabled)
         => skillOp' \in {"toggle", "enable_all"}]_vars


\* C39: get_tool_definition(name) returns a definition exactly when a skill of
\* that name is in the Skill Store and enabled, and None otherwise, whatever
\* lookups, toggles, reloads and removals came before.
C39_DefinitionIffEnabledSkill ==
  skillOp = "get_tool_definition" =>
    (lastSkill.tool # None
       <=> (lastSkill.name \in DOMAIN skills /\ skills[lastSkill.name].enabled))


\* C40: an update from a user whose id is not the admin's (or from no user at
\* all) changes nothing the handlers act on: no provider call, no skill
\* execution, the same conversation, enabled skills, active provider, pending
\* jobs, stored jobs and registered triggers as before it arrived.
C40_OnlyAdminActs ==
  [][(updatesSeen' = updatesSeen + 1 /\ user_id(lastUpdate'.update) # admin_id)
       => bot' = bot]_vars

\* somebody else has pressed the confirm button of a job that is pending, and
\* the job is pending still, after the admin's own updates were acted on
C40_Witness ==
  /\ lastUpdate # None
  /\ lastUpdate.update.kind = "callback"
  /\ user_id(lastUpdate.update) # admin_id
  /\ lastUpdate.update.data[1] = "scheduler"
  /\ lastUpdate.update.data[2] = "confirm"
  /\ lastUpdate.update.data[3] \in bot.pendingJobs
  /\ bot.providerCalls > 0

=============================================================================
